---- MODULE Spec2Model ----
(***************************************************************************)
(* Model of the credit-analysis pipeline of multi-agent-credit-analysis:   *)
(* the LangGraph state machine of src/graph/credit_analysis_graph.py, the  *)
(* four agents it sequences (src/agents/*.py) and the shared AgentState    *)
(* (src/models/schemas.py).                                                *)
(*                                                                         *)
(* Conventions                                                             *)
(*  - An Optional[T] value is None (the empty tuple) or Some(v) (a         *)
(*    one-element tuple).                                                  *)
(*  - Scores are kept in hundredths (5.0 is 500), so that                  *)
(*    0.7*financial + 0.3*non_financial is exact integer arithmetic.       *)
(*  - Text is kept as strings; the Portuguese texts of the source are      *)
(*    written without diacritics.                                          *)
(***************************************************************************)
EXTENDS Integers, Sequences, FiniteSets, TLC

VARIABLES
    request_id,           \* AgentState.request_id
    cnpj,                 \* AgentState.cnpj
    documents,            \* AgentState.documents
    company_data,         \* AgentState.company_data       (Optional)
    web_search_results,   \* AgentState.web_search_results
    document_analysis,    \* AgentState.document_analysis
    risk_analysis,        \* AgentState.risk_analysis      (Optional)
    quality_validation,   \* AgentState.quality_validation (Optional)
    retry_count,          \* AgentState.retry_count
    max_retries,          \* AgentState.max_retries
    processing_notes,     \* AgentState.processing_notes
    pc,                   \* the graph node about to execute, "END", or "ERROR"
    attempts,             \* execute() calls made by the current node visit
    steps,                \* graph supersteps completed by ainvoke
    trace,                \* history: the nodes entered, in order
    error,                \* the exception analyze_credit re-raised (Optional)
    entry_retry,          \* history: retry_count when the current node was entered
    serial,               \* history: RiskAnalysis objects created so far
    approved_id,          \* history: id of the first approved RiskAnalysis, 0 if none
    generation_up,        \* environment: whether the generation service answers
    call,                 \* a method called on its own: [fn, input, output, done], or None
    vector_store          \* DocumentAnalystAgent.vector_store: the file names of the documents it holds

vars == << request_id, cnpj, documents, company_data, web_search_results,
           document_analysis, risk_analysis, quality_validation, retry_count,
           max_retries, processing_notes, pc, attempts, steps, trace, error,
           entry_retry, serial, approved_id, generation_up, call,
           vector_store >>

stateFields == << request_id, cnpj, documents, company_data, web_search_results,
                  document_analysis, risk_analysis, quality_validation,
                  retry_count, max_retries, processing_notes >>

-----------------------------------------------------------------------------
(* Optional values and Python truthiness *)

None == << >>

Some(v) == << v >>

Val(o) == o[1]

\* `if x:` for an Optional[float]: None and 0 are both falsy
TruthyNum(o) == o # None /\ Val(o) # 0

\* `if x:` for an Optional[str]: None and "" are both falsy
TruthyStr(o) == o # None /\ Val(o) # ""

-----------------------------------------------------------------------------
(* Text helpers: what `in`, str.lower and filter(str.isdigit, .) compute *)

Contains(hay, needle) ==
    \E i \in 1..(Len(hay) - Len(needle) + 1) :
        SubSeq(hay, i, i + Len(needle) - 1) = needle

\* str.lower on the unaccented Latin letters
UpperToLower ==
    [ c \in {"A", "B", "C", "D", "E", "F", "G", "H", "I", "J", "K", "L", "M", "N",
             "O", "P", "Q", "R", "S", "T", "U", "V", "W", "X", "Y", "Z"} |->
        CASE c = "A" -> "a" [] c = "B" -> "b" [] c = "C" -> "c" [] c = "D" -> "d"
          [] c = "E" -> "e" [] c = "F" -> "f" [] c = "G" -> "g" [] c = "H" -> "h"
          [] c = "I" -> "i" [] c = "J" -> "j" [] c = "K" -> "k" [] c = "L" -> "l"
          [] c = "M" -> "m" [] c = "N" -> "n" [] c = "O" -> "o" [] c = "P" -> "p"
          [] c = "Q" -> "q" [] c = "R" -> "r" [] c = "S" -> "s" [] c = "T" -> "t"
          [] c = "U" -> "u" [] c = "V" -> "v" [] c = "W" -> "w" [] c = "X" -> "x"
          [] c = "Y" -> "y" [] c = "Z" -> "z" ]

LowerChar(c) == IF c \in DOMAIN UpperToLower THEN UpperToLower[c] ELSE c

\* str.lower, by halves
RECURSIVE Lower(_)
Lower(s) ==
    IF Len(s) = 0 THEN ""
    ELSE IF Len(s) = 1 THEN LowerChar(s)
    ELSE Lower(SubSeq(s, 1, Len(s) \div 2))
         \o Lower(SubSeq(s, Len(s) \div 2 + 1, Len(s)))

\* `needle in hay.lower()`
ContainsLower(hay, needle) == Contains(Lower(hay), needle)

IsDigit(c) == c \in {"0", "1", "2", "3", "4", "5", "6", "7", "8", "9"}

RECURSIVE DigitsOf(_)
DigitsOf(s) ==
    IF Len(s) = 0 THEN ""
    ELSE (IF IsDigit(SubSeq(s, 1, 1)) THEN SubSeq(s, 1, 1) ELSE "")
         \o DigitsOf(SubSeq(s, 2, Len(s)))

CountChar(s, c) == Cardinality({i \in 1..Len(s) : SubSeq(s, i, i) = c})

RECURSIVE Join(_, _)
Join(seq, sep) ==
    IF Len(seq) = 0 THEN ""
    ELSE IF Len(seq) = 1 THEN seq[1]
    ELSE seq[1] \o sep \o Join(Tail(seq), sep)

\* a score in hundredths printed with two decimals
Fmt(h) ==
    ToString(h \div 100) \o "." \o
    (IF h % 100 < 10 THEN "0" ELSE "") \o ToString(h % 100)

Min(a, b) == IF a <= b THEN a ELSE b

Max(a, b) == IF a >= b THEN a ELSE b

RECURSIVE SumSeq(_)
SumSeq(s) == IF Len(s) = 0 THEN 0 ELSE Head(s) + SumSeq(Tail(s))

RECURSIVE Flatten(_)
Flatten(ss) == IF Len(ss) = 0 THEN << >> ELSE Head(ss) \o Flatten(Tail(ss))

CountIn(seq, x) == Cardinality({i \in 1..Len(seq) : seq[i] = x})

\* `a / b >= p / q` for b # 0 and q > 0, without leaving the integers
RatioGE(a, b, p, q) == IF b > 0 THEN a * q >= p * b ELSE a * q <= p * b

\* `{x:.1f}` of a value kept in hundredths (halves are rounded up)
Fmt1(h) == ToString((h + 5) \div 100) \o "." \o ToString(((h + 5) % 100) \div 10)

-----------------------------------------------------------------------------
(* src/models/schemas.py: enumerations and defaults *)

APPROVE == "approve"

REVIEW == "review"

REJECT == "reject"

APPROVED == "approved"

REJECTED == "rejected"

\* AgentState.max_retries default
DefaultMaxRetries == 3

-----------------------------------------------------------------------------
(* Faulty variants of the retry and routing code. Each property below that  *)
(* holds of the program is also run against one of them, where it must      *)
(* fail; none of them is used by the model itself.                          *)

\* should_retry letting one failure too many be retried
should_retry_inclusive(count, ceiling) == count <= ceiling

\* increment_retry leaving the counter where it is
increment_retry_stuck(count) == count

\* increment_retry counting every failure twice
increment_retry_twice(count) == count + 2

\* _should_retry_analysis retrying once more when the counter is at the ceiling
_should_retry_analysis_inclusive(qv, count, ceiling) ==
    IF qv = None THEN "finish"
    ELSE IF Val(qv).status = APPROVED THEN "finish"
    ELSE IF count <= ceiling THEN "retry"
    ELSE "finish"

\* _should_retry_analysis without the test for an approved report
_should_retry_analysis_after_approval(qv, count, ceiling) ==
    IF qv = None THEN "finish"
    ELSE IF count < ceiling THEN "retry"
    ELSE "finish"

\* _should_retry_analysis without the test for a missing report
_should_retry_analysis_unguarded(qv, count, ceiling) ==
    IF qv # None /\ Val(qv).status = APPROVED THEN "finish"
    ELSE IF count < ceiling THEN "retry"
    ELSE "finish"

\* the conditional edge of _build_graph sending "retry" back to the first node
EdgeAfter_restart(node, route) ==
    CASE node = "data_gatherer" -> "document_analyst"
      [] node = "document_analyst" -> "risk_analyst"
      [] node = "risk_analyst" -> "quality_assurance"
      [] node = "quality_assurance" ->
            IF route = "retry" THEN "data_gatherer" ELSE "END"

\* _determine_recommendation testing the overall score before the floors
_determine_recommendation_overall_first(overall, financial, non_financial) ==
    IF overall >= 750 THEN APPROVE
    ELSE IF financial <= 200 THEN REJECT
    ELSE IF non_financial <= 300 THEN REJECT
    ELSE IF overall >= 550 THEN REVIEW
    ELSE REJECT

\* _check_recommendation_logic without its first rule (overall >= 7.5 needs Approve)
_check_recommendation_logic_without_ceiling(ra_opt) ==
    IF ra_opt = None THEN FALSE
    ELSE LET ra == ra_opt[1] IN
         IF ra.overall_risk_score <= 400 /\ ra.recommendation # REJECT THEN FALSE
         ELSE IF ra.financial_health_score <= 200 /\ ra.recommendation = APPROVE THEN FALSE
         ELSE IF ra.non_financial_risk_score <= 300 /\ ra.recommendation = APPROVE THEN FALSE
         ELSE TRUE

\* _determine_quality_status rejecting from half of the important checks on
_determine_quality_status_from_half(checks) ==
    IF \E n \in {"risk_analysis_present", "scores_in_valid_range",
                 "recommendation_logic_consistent"} : checks[n] # "True"
    THEN REJECTED
    ELSE IF Cardinality({n \in {"company_data_available", "cnpj_consistency",
                                "factors_have_evidence", "analysis_text_quality"} :
                            checks[n] # "True"}) >= 2
    THEN REJECTED
    ELSE APPROVED

\* _analyze_financial_health keeping the base score when nothing was analysed
_analyze_financial_health_neutral(docs) ==
    [ score |-> 500, positive |-> << >>,
      negative |-> IF Len(docs) = 0
                   THEN << "Nenhum documento financeiro analisado" >>
                   ELSE << >> ]

\* _analyze_financial_health giving full marks when nothing was analysed
_analyze_financial_health_optimistic(docs) ==
    [ score |-> IF \A i \in 1..Len(docs) : docs[i].financial_kpis = << >>
                THEN 1000 ELSE 500,
      positive |-> << >>,
      negative |-> << "Nenhum documento financeiro analisado" >> ]

\* overall_score as the plain mean of the two scores
overall_score_mean(financial, non_financial) == (financial + non_financial) \div 2

\* LongevityAdjust rewarding only more than five years of operation
LongevityAdjust_over_five(company) ==
    IF company.registration_days = None
    THEN [score |-> 0, positive |-> << >>, negative |-> << >>]
    ELSE LET days == company.registration_days[1]
             shown == Fmt1((days * 100) \div 365)
         IN  IF ~RatioGE(365, days, 1, 5)
             THEN [score |-> 100, negative |-> << >>,
                   positive |-> << "Empresa estabelecida: " \o shown \o " anos de operacao" >>]
             ELSE IF RatioGE(days, 365, 2, 1)
             THEN [score |-> 0, negative |-> << >>,
                   positive |-> << "Empresa com " \o shown \o " anos de operacao" >>]
             ELSE [score |-> -50, positive |-> << >>,
                   negative |-> << "Empresa recente: " \o shown \o " anos" >>]

\* the file loop of analyze_credit looking at the first upload only
file_error_first_only(files) ==
    IF Len(files) = 0 THEN << >>
    ELSE IF Len(files[1].filename) < 4
            \/ SubSeq(files[1].filename, Len(files[1].filename) - 3,
                      Len(files[1].filename)) # ".pdf"
    THEN << "Tipo de arquivo nao suportado: " \o files[1].filename >>
    ELSE << >>

\* the edges of _build_graph with data_gatherer wired straight to risk_analyst
EdgeAfter_skip_documents(node, route) ==
    CASE node = "data_gatherer" -> "risk_analyst"
      [] node = "document_analyst" -> "risk_analyst"
      [] node = "risk_analyst" -> "quality_assurance"
      [] node = "quality_assurance" ->
            IF route = "retry" THEN "risk_analyst" ELSE "END"

\* VectorStore.clear leaving the store as it is
clear_nothing(store) == store

-----------------------------------------------------------------------------
(* src/agents/base_agent.py *)

add_processing_note(notes, name, note) == Append(notes, "[" \o name \o "] " \o note)

should_retry(count, ceiling) == count < ceiling

\* the counter update of increment_retry; its note is appended by handle_error below
increment_retry(count) == count + 1

\* what execute() makes of a raised exception `err`, the notes being `notes0`
\* when it is caught: either the same agent executes again (pc unchanged), or
\* the exception goes up through the node and graph.ainvoke to analyze_credit.
handle_error(name, err, notes0) ==
    LET noted == add_processing_note(notes0, name,
                     "Erro no agente " \o name \o ": " \o err)
    IN  IF should_retry(retry_count, max_retries)
        THEN /\ retry_count' = increment_retry(retry_count)
             /\ processing_notes' =
                    add_processing_note(noted, name,
                        "Tentativa " \o ToString(increment_retry(retry_count))
                        \o "/" \o ToString(max_retries))
             /\ pc' = pc
             /\ error' = error
        ELSE /\ retry_count' = retry_count
             /\ processing_notes' = noted
             /\ pc' = "ERROR"
             /\ error' = Some([type |-> "Exception", message |-> err])

-----------------------------------------------------------------------------
(* src/agents/risk_analyst.py                                               *)
(* A FinancialKPI is a record of Optionals; roa is a percentage and         *)
(* debt_to_equity a ratio, both in hundredths (roa 15% is 1500); the        *)
(* money amounts are integers. A score result is                            *)
(* [score, positive, negative], the factor lists being lists of strings.    *)

\* self.financial_thresholds, in hundredths
RoaExcellent == 1500

RoaGood == 1000

RoaAcceptable == 500

DebtExcellent == 50

DebtGood == 100

DebtAcceptable == 200

ScoreResult(s, pos, neg) == [score |-> s, positive |-> pos, negative |-> neg]

\* all_kpis: the indicator snapshots of every document analysis, in list order
all_kpis(docs) == Flatten([i \in 1..Len(docs) |-> docs[i].financial_kpis])

\* the profitability block (ROA)
RoaAdjust(kpi) ==
    IF kpi.roa = None THEN ScoreResult(0, << >>, << >>)
    ELSE LET r == Val(kpi.roa) IN
         IF r >= RoaExcellent
         THEN ScoreResult(150, << "Excelente ROA: " \o Fmt(r) \o "%" >>, << >>)
         ELSE IF r >= RoaGood
         THEN ScoreResult(100, << "Bom ROA: " \o Fmt(r) \o "%" >>, << >>)
         ELSE IF r >= RoaAcceptable
         THEN ScoreResult(50, << "ROA aceitavel: " \o Fmt(r) \o "%" >>, << >>)
         ELSE ScoreResult(-100, << >>, << "ROA baixo: " \o Fmt(r) \o "%" >>)

\* the indebtedness block (debt to equity)
DebtAdjust(kpi) ==
    IF kpi.debt_to_equity = None THEN ScoreResult(0, << >>, << >>)
    ELSE LET d == Val(kpi.debt_to_equity) IN
         IF d <= DebtExcellent
         THEN ScoreResult(100, << "Baixo endividamento: " \o Fmt(d) >>, << >>)
         ELSE IF d <= DebtGood
         THEN ScoreResult(50, << "Endividamento controlado: " \o Fmt(d) >>, << >>)
         ELSE IF d <= DebtAcceptable
         THEN ScoreResult(0, << >>, << >>)
         ELSE ScoreResult(-150, << >>, << "Alto endividamento: " \o Fmt(d) >>)

\* the liquidity block (current ratio); the ratio is printed truncated
LiquidityAdjust(kpi) ==
    IF ~(TruthyNum(kpi.current_assets) /\ TruthyNum(kpi.current_liabilities))
    THEN ScoreResult(0, << >>, << >>)
    ELSE LET ca == Val(kpi.current_assets)
             cl == Val(kpi.current_liabilities)
             shown == Fmt((ca * 100) \div cl)
         IN  IF RatioGE(ca, cl, 3, 2)
             THEN ScoreResult(80, << "Boa liquidez corrente: " \o shown >>, << >>)
             ELSE IF RatioGE(ca, cl, 1, 1)
             THEN ScoreResult(30, << "Liquidez adequada: " \o shown >>, << >>)
             ELSE ScoreResult(-100, << >>, << "Liquidez insuficiente: " \o shown >>)

\* MarginAdjust rewarding a high margin with two points
MarginAdjust_two_points(kpi) ==
    IF ~(TruthyNum(kpi.net_profit) /\ TruthyNum(kpi.revenue))
    THEN ScoreResult(0, << >>, << >>)
    ELSE LET np == Val(kpi.net_profit)
             rv == Val(kpi.revenue)
             shown == Fmt1((np * 10000) \div rv) \o "%"
         IN  IF RatioGE(np, rv, 10, 100)
             THEN ScoreResult(200, << "Alta margem liquida: " \o shown >>, << >>)
             ELSE IF RatioGE(np, rv, 5, 100)
             THEN ScoreResult(50, << "Margem liquida adequada: " \o shown >>, << >>)
             ELSE IF ~RatioGE(np, rv, 0, 1)
             THEN ScoreResult(-150, << >>, << "Empresa com prejuizo: " \o shown >>)
             ELSE ScoreResult(0, << >>, << >>)

\* the profit-margin block (net profit / revenue); the margin is printed truncated
MarginAdjust(kpi) ==
    IF ~(TruthyNum(kpi.net_profit) /\ TruthyNum(kpi.revenue))
    THEN ScoreResult(0, << >>, << >>)
    ELSE LET np == Val(kpi.net_profit)
             rv == Val(kpi.revenue)
             shown == Fmt1((np * 10000) \div rv) \o "%"
         IN  IF RatioGE(np, rv, 10, 100)
             THEN ScoreResult(100, << "Alta margem liquida: " \o shown >>, << >>)
             ELSE IF RatioGE(np, rv, 5, 100)
             THEN ScoreResult(50, << "Margem liquida adequada: " \o shown >>, << >>)
             ELSE IF ~RatioGE(np, rv, 0, 1)
             THEN ScoreResult(-150, << >>, << "Empresa com prejuizo: " \o shown >>)
             ELSE ScoreResult(0, << >>, << >>)

\* _analyze_financial_health scoring the first snapshot instead of the last
_analyze_financial_health_first_snapshot(docs) ==
    IF Len(docs) = 0
    THEN ScoreResult(300, << >>, << "Nenhum documento financeiro analisado" >>)
    ELSE IF Len(all_kpis(docs)) = 0
    THEN ScoreResult(300, << >>, << "Nenhum KPI financeiro extraido" >>)
    ELSE LET kpis == all_kpis(docs)
             latest_kpi == kpis[1]
             a == RoaAdjust(latest_kpi)
             b == DebtAdjust(latest_kpi)
             c == LiquidityAdjust(latest_kpi)
             d == MarginAdjust(latest_kpi)
         IN  ScoreResult(
                Max(0, Min(1000, 500 + a.score + b.score + c.score + d.score)),
                a.positive \o b.positive \o c.positive \o d.positive,
                a.negative \o b.negative \o c.negative \o d.negative)

_analyze_financial_health(docs) ==
    IF Len(docs) = 0
    THEN ScoreResult(300, << >>, << "Nenhum documento financeiro analisado" >>)
    ELSE IF Len(all_kpis(docs)) = 0
    THEN ScoreResult(300, << >>, << "Nenhum KPI financeiro extraido" >>)
    ELSE LET kpis == all_kpis(docs)
             latest_kpi == kpis[Len(kpis)]
             a == RoaAdjust(latest_kpi)
             b == DebtAdjust(latest_kpi)
             c == LiquidityAdjust(latest_kpi)
             d == MarginAdjust(latest_kpi)
         IN  ScoreResult(
                Max(0, Min(1000, 500 + a.score + b.score + c.score + d.score)),
                a.positive \o b.positive \o c.positive \o d.positive,
                a.negative \o b.negative \o c.negative \o d.negative)

\* whether text.lower() contains one of the (lower-case) keywords
ContainsAny(text, keywords) ==
    LET content_lower == Lower(text) IN \E k \in keywords : Contains(content_lower, k)

legal_keywords == {"processo", "execucao", "falencia", "recuperacao judicial", "divida"}

negative_keywords == {"fraude", "irregularidade", "multa", "penalidade", "investigacao"}

positive_keywords == {"premio", "expansao", "crescimento", "inovacao", "sucesso"}

\* how many of the lower-cased contents hold one of the keywords
CountMatching(content_lower, keywords) ==
    Cardinality({i \in 1..Len(content_lower) :
                    \E k \in keywords : Contains(content_lower[i], k)})

\* the registration-status block; `company` is a CompanyData record
SituationAdjust(company) ==
    IF TruthyStr(company.legal_situation)
       /\ ContainsLower(Val(company.legal_situation), "ativa")
    THEN ScoreResult(0, << "Empresa com situacao cadastral ativa" >>, << >>)
    ELSE ScoreResult(-200, << >>,
            << "Situacao cadastral irregular: " \o
               (IF company.legal_situation = None THEN "None"
                ELSE Val(company.legal_situation)) >>)

\* the time-in-operation block; registration_days is (now - registration_date).days
LongevityAdjust(company) ==
    IF company.registration_days = None THEN ScoreResult(0, << >>, << >>)
    ELSE LET days == Val(company.registration_days)
             shown == Fmt1((days * 100) \div 365)
         IN  IF RatioGE(days, 365, 5, 1)
             THEN ScoreResult(100,
                    << "Empresa estabelecida: " \o shown \o " anos de operacao" >>, << >>)
             ELSE IF RatioGE(days, 365, 2, 1)
             THEN ScoreResult(0,
                    << "Empresa com " \o shown \o " anos de operacao" >>, << >>)
             ELSE ScoreResult(-50, << >>, << "Empresa recente: " \o shown \o " anos" >>)

\* the web-result scan
WebAdjust(results) ==
    LET content_lower == [i \in 1..Len(results) |-> Lower(results[i].content)]
        legal_issues == CountMatching(content_lower, legal_keywords)
        negative_news == CountMatching(content_lower, negative_keywords)
        positive_mentions == CountMatching(content_lower, positive_keywords)
    IN  ScoreResult(
            (IF positive_mentions > 0 THEN Min(positive_mentions * 50, 100) ELSE 0)
            - (IF legal_issues > 0 THEN Min(legal_issues * 150, 300) ELSE 0)
            - (IF negative_news > 0 THEN Min(negative_news * 100, 200) ELSE 0),
            IF positive_mentions > 0
            THEN << "Encontradas " \o ToString(positive_mentions) \o " mencoes positivas" >>
            ELSE << >>,
            (IF legal_issues > 0
             THEN << "Encontrados " \o ToString(legal_issues)
                     \o " indicadores de questoes legais" >>
             ELSE << >>)
            \o
            (IF negative_news > 0
             THEN << "Encontradas " \o ToString(negative_news)
                     \o " mencoes negativas na midia" >>
             ELSE << >>))

_analyze_non_financial_risks(company_opt, results) ==
    LET none == ScoreResult(0, << >>, << >>)
        a == IF company_opt = None THEN none ELSE SituationAdjust(Val(company_opt))
        b == IF company_opt = None THEN none ELSE LongevityAdjust(Val(company_opt))
        c == WebAdjust(results)
    IN  ScoreResult(
            Max(0, Min(1000, 700 + a.score + b.score + c.score)),
            a.positive \o b.positive \o c.positive,
            a.negative \o b.negative \o c.negative)

\* overall_score = financial * 0.7 + non_financial * 0.3 (execute, line 46)
overall_score(financial, non_financial) == (financial * 7 + non_financial * 3) \div 10

_determine_recommendation(overall, financial, non_financial) ==
    IF financial <= 200 THEN REJECT
    ELSE IF non_financial <= 300 THEN REJECT
    ELSE IF overall >= 750 THEN APPROVE
    ELSE IF overall >= 550 THEN REVIEW
    ELSE REJECT

\* the text _generate_detailed_analysis returns: the generation service's
\* answer, or the template of the except branch when the call raised
\* (llm = None)
_generate_detailed_analysis(llm, financial, non_financial) ==
    IF llm # None THEN Val(llm)
    ELSE "Analise automatica: Score financeiro " \o Fmt1(financial)
         \o "/10, Score nao-financeiro " \o Fmt1(non_financial)
         \o "/10. Recomendacao baseada nos indicadores calculados."

\* the snapshot whose figures the prompt of _generate_detailed_analysis
\* reports under "Indicadores Financeiros"; None when the section is empty
financial_info(docs) ==
    IF Len(docs) > 0 /\ Len(docs[1].financial_kpis) > 0
    THEN Some(docs[1].financial_kpis[1])
    ELSE None

\* confidence in thousandths; the mean of the documents' confidence scores
\* (hundredths) is truncated
_calculate_confidence_level(company_opt, docs, results) ==
    LET by_company == IF company_opt # None THEN 200 ELSE 0
        by_docs == IF Len(docs) > 0
                   THEN (SumSeq([i \in 1..Len(docs) |-> docs[i].confidence_score]) * 5)
                        \div Len(docs)
                   ELSE 0
        by_web == IF Len(results) > 0 THEN Min(Len(results) * 100, 200) ELSE 0
        total_kpis == Len(all_kpis(docs))
        by_kpis == IF total_kpis > 0 THEN Min(total_kpis * 200, 100) ELSE 0
    IN  Min(by_company + by_docs + by_web + by_kpis, 1000)
\* RiskAnalysisOf lowering the financial score of every repeated pass
RiskAnalysisOf_penalising_repeats(fin, non, confidence, llm, id) ==
    LET score == IF id > 1 THEN Max(0, fin.score - 50) ELSE fin.score
        overall == overall_score(score, non.score)
    IN  [ financial_health_score |-> score,
          non_financial_risk_score |-> non.score,
          overall_risk_score |-> overall,
          positive_factors |-> fin.positive \o non.positive,
          negative_factors |-> fin.negative \o non.negative,
          recommendation |-> _determine_recommendation(overall, score, non.score),
          analysis_text |-> _generate_detailed_analysis(llm, score, non.score),
          confidence_level |-> confidence,
          id |-> id ]

\* the RiskAnalysis that execute builds; `id` is the object's identity
RiskAnalysisOf(fin, non, confidence, llm, id) ==
    LET overall == overall_score(fin.score, non.score)
    IN  [ financial_health_score |-> fin.score,
          non_financial_risk_score |-> non.score,
          overall_risk_score |-> overall,
          positive_factors |-> fin.positive \o non.positive,
          negative_factors |-> fin.negative \o non.negative,
          recommendation |-> _determine_recommendation(overall, fin.score, non.score),
          analysis_text |-> _generate_detailed_analysis(llm, fin.score, non.score),
          confidence_level |-> confidence,
          id |-> id ]

-----------------------------------------------------------------------------
(* src/agents/quality_assurance.py                                          *)
(* The value of a check is a Python value: True or False, or, where the     *)
(* source returns the value of an `or`/`and` chain, None or the empty       *)
(* string. They are kept as the strings below.                              *)

PyTrue == "True"

PyFalse == "False"

PyNone == "None"

PyEmptyStr == "''"

PyBool(b) == IF b THEN PyTrue ELSE PyFalse

\* `if v:` / `not v`
Truthy(v) == v = PyTrue

\* whether int + v is defined (bool is an int; None and str are not)
Summable(v) == v \in {PyTrue, PyFalse}

\* the keys of the checks dictionary, in insertion order
CheckNames ==
    << "company_data_available", "cnpj_consistency", "risk_analysis_present",
       "scores_in_valid_range", "recommendation_logic_consistent",
       "factors_have_evidence", "analysis_text_quality",
       "financial_data_available" >>

critical_checks ==
    << "risk_analysis_present", "scores_in_valid_range",
       "recommendation_logic_consistent" >>

important_checks ==
    << "company_data_available", "cnpj_consistency", "factors_have_evidence",
       "analysis_text_quality" >>

_check_recommendation_logic(ra_opt) ==
    IF ra_opt = None THEN FALSE
    ELSE LET ra == Val(ra_opt) IN
         IF ra.overall_risk_score >= 750 /\ ra.recommendation # APPROVE THEN FALSE
         ELSE IF ra.overall_risk_score <= 400 /\ ra.recommendation # REJECT THEN FALSE
         ELSE IF ra.financial_health_score <= 200 /\ ra.recommendation = APPROVE THEN FALSE
         ELSE IF ra.non_financial_risk_score <= 300 /\ ra.recommendation = APPROVE THEN FALSE
         ELSE TRUE

_check_factors_evidence(ra_opt, docs, results) ==
    IF ra_opt = None THEN FALSE
    ELSE LET negative_factors == Val(ra_opt).negative_factors
             financial_problems_mentioned ==
                 \E i \in 1..Len(negative_factors) :
                     ContainsAny(negative_factors[i],
                                 {"roa", "endividamento", "liquidez"})
             legal_issues_mentioned ==
                 \E i \in 1..Len(negative_factors) :
                     ContainsAny(negative_factors[i], {"processo", "legal"})
         IN  IF financial_problems_mentioned /\ Len(docs) = 0 THEN FALSE
             ELSE IF legal_issues_mentioned /\ Len(results) = 0 THEN FALSE
             ELSE TRUE

\* returns a Python value: the last expression is
\*   state.cnpj in text or (company_data and corporate_name and name in text)
_check_analysis_text_quality(ra_opt, id_text, company_opt) ==
    IF ra_opt = None \/ Val(ra_opt).analysis_text = "" THEN PyFalse
    ELSE LET text == Val(ra_opt).analysis_text IN
         IF Len(text) < 100 THEN PyFalse
         ELSE IF CountChar(text, ".") < 3 THEN PyFalse
         ELSE IF Contains(text, id_text) THEN PyTrue
         ELSE IF company_opt = None THEN PyNone
         ELSE IF Val(company_opt).corporate_name = "" THEN PyEmptyStr
         ELSE PyBool(ContainsLower(text, Lower(Val(company_opt).corporate_name)))

_check_financial_data_availability(docs) ==
    IF Len(docs) = 0 THEN FALSE
    ELSE \E i \in 1..Len(docs) : Len(docs[i].financial_kpis) > 0

ScoresInRange(ra_opt) ==
    IF ra_opt = None THEN FALSE
    ELSE LET ra == Val(ra_opt) IN
         /\ 0 <= ra.financial_health_score /\ ra.financial_health_score <= 1000
         /\ 0 <= ra.non_financial_risk_score /\ ra.non_financial_risk_score <= 1000
         /\ 0 <= ra.overall_risk_score /\ ra.overall_risk_score <= 1000

CnpjConsistency(id_text, company_opt) ==
    IF company_opt = None THEN FALSE
    ELSE DigitsOf(id_text) = DigitsOf(Val(company_opt).cnpj)

\* the checks dictionary, as a function from the check names to Python values
_perform_consistency_checks(id_text, company_opt, results, docs, ra_opt) ==
    [ name \in {CheckNames[i] : i \in 1..Len(CheckNames)} |->
        CASE name = "company_data_available" -> PyBool(company_opt # None)
          [] name = "cnpj_consistency" -> PyBool(CnpjConsistency(id_text, company_opt))
          [] name = "risk_analysis_present" -> PyBool(ra_opt # None)
          [] name = "scores_in_valid_range" -> PyBool(ScoresInRange(ra_opt))
          [] name = "recommendation_logic_consistent" ->
                PyBool(_check_recommendation_logic(ra_opt))
          [] name = "factors_have_evidence" ->
                PyBool(_check_factors_evidence(ra_opt, docs, results))
          [] name = "analysis_text_quality" ->
                _check_analysis_text_quality(ra_opt, id_text, company_opt)
          [] name = "financial_data_available" ->
                PyBool(_check_financial_data_availability(docs)) ]

\* the names of `names` whose check is falsy, in order
FailedOf(checks, names) == SelectSeq(names, LAMBDA n : ~Truthy(checks[n]))

_determine_quality_status(checks) ==
    IF Len(FailedOf(checks, critical_checks)) > 0 THEN REJECTED
    ELSE IF Len(FailedOf(checks, important_checks)) > Len(important_checks) \div 2
    THEN REJECTED
    ELSE APPROVED

\* the generation service's answer, or the except branch's list of the failed
\* checks when the call raised (llm = None)
_generate_feedback(llm, checks) ==
    IF llm # None THEN Val(llm)
    ELSE "Verificacoes que falharam: " \o Join(FailedOf(checks, CheckNames), ", ")
         \o ". Favor revisar a analise considerando estes pontos."

\* sum(checks.values()) raises TypeError unless every value is a bool
ValidationNotesRaise(checks) ==
    \E i \in 1..Len(CheckNames) : ~Summable(checks[CheckNames[i]])

_generate_validation_notes(checks) ==
    LET passed_count == Len(SelectSeq(CheckNames, LAMBDA n : Truthy(checks[n])))
    IN  << "Verificacoes de qualidade: " \o ToString(passed_count) \o "/"
           \o ToString(Len(CheckNames)) \o " aprovadas" >>
        \o (IF ~Truthy(checks["company_data_available"])
            THEN << "Dados da empresa nao disponiveis - pode afetar qualidade da analise" >>
            ELSE << >>)
        \o (IF ~Truthy(checks["financial_data_available"])
            THEN << "Dados financeiros limitados - analise baseada em informacoes publicas" >>
            ELSE << >>)
        \o (IF Truthy(checks["recommendation_logic_consistent"])
            THEN << "Logica de recomendacao consistente com scores calculados" >>
            ELSE << >>)
        \o (IF Truthy(checks["analysis_text_quality"])
            THEN << "Qualidade do texto de analise aprovada" >>
            ELSE << >>)

\* the QualityValidation that execute builds; `of` is the identity of the
\* RiskAnalysis object the checks were computed from
QualityValidationOf(checks, llm, of) ==
    LET status == _determine_quality_status(checks) IN
    [ status |-> status,
      consistency_checks |-> checks,
      feedback |-> IF status = REJECTED THEN Some(_generate_feedback(llm, checks))
                   ELSE None,
      validation_notes |-> _generate_validation_notes(checks),
      of |-> of ]

-----------------------------------------------------------------------------
(* src/graph/credit_analysis_graph.py *)

Nodes == {"data_gatherer", "document_analyst", "risk_analyst", "quality_assurance"}

\* graph.ainvoke is called without a config (line 157), so the graph engine's
\* step limit applies: ainvoke raises GraphRecursionError when the graph has
\* not reached END after that many node executions. LangGraph's default is
\* 25; the model runs with a smaller limit that still lets more Scoring
\* passes happen than the retry ceiling allows for.
RecursionLimit == 11

_should_retry_analysis(qv, count, ceiling) ==
    IF qv = None THEN "finish"
    ELSE IF Val(qv).status = APPROVED THEN "finish"
    ELSE IF count < ceiling THEN "retry"
    ELSE "finish"

\* the edges _build_graph adds; `route` is what _should_retry_analysis returned
EdgeAfter(node, route) ==
    CASE node = "data_gatherer" -> "document_analyst"
      [] node = "document_analyst" -> "risk_analyst"
      [] node = "risk_analyst" -> "quality_assurance"
      [] node = "quality_assurance" ->
            IF route = "retry" THEN "risk_analyst" ELSE "END"

\* whether _risk_analyst_node finds feedback to pass on (line 90)
FeedbackPending(qv) == qv # None /\ TruthyStr(Val(qv).feedback)

\* _risk_analyst_node before it calls execute: the notes and the
\* quality_validation it leaves (lines 90-93)
NodeNotes(qv, notes) ==
    IF FeedbackPending(qv)
    THEN Append(notes, "Feedback QA: " \o Val(Val(qv).feedback))
    ELSE notes

NodeValidation(qv) == IF FeedbackPending(qv) THEN None ELSE qv

\* the graph engine once `node` has returned: one more superstep is done, and
\* the edge out of the node is followed unless the step limit is reached
Advance(node, route) ==
    LET next == EdgeAfter(node, route) IN
    /\ steps' = steps + 1
    /\ IF next = "END"
       THEN /\ pc' = "END"
            /\ attempts' = attempts + 1
            /\ UNCHANGED << error, trace, entry_retry >>
       ELSE IF steps + 1 >= RecursionLimit
       THEN /\ pc' = "ERROR"
            /\ error' = Some([type |-> "GraphRecursionError",
                              message |-> "Recursion limit reached"])
            /\ attempts' = attempts + 1
            /\ UNCHANGED << trace, entry_retry >>
       ELSE /\ pc' = next
            /\ attempts' = 0
            /\ trace' = Append(trace, next)
            /\ entry_retry' = retry_count
            /\ error' = error

\* an execute() call that raised: handle_error decides, the engine does not move
Raised(name, err, notes0) ==
    /\ handle_error(name, err, notes0)
    /\ attempts' = attempts + 1
    /\ UNCHANGED << steps, trace, entry_retry >>

-----------------------------------------------------------------------------
(* The environment: what the collaborators may answer. *)

\* the tax identifier main.py passes on: 14 digits, non-digits stripped
RequestCnpj == "11222333000181"

Document(name, content) == [filename |-> name, content |-> content]

\* the uploads of a request
DocumentInputs == { << >>, << Document("balanco.pdf", "pdf") >> }

KPI(roa, debt, ca, cl, np, rev) ==
    [ roa |-> roa, debt_to_equity |-> debt, current_assets |-> ca,
      current_liabilities |-> cl, net_profit |-> np, revenue |-> rev,
      period |-> "2023" ]

\* retrieved_from is not a field of the source's DocumentAnalysis: it records
\* the documents the vector store held when the indicators were extracted
DocAnalysis(kpis, confidence) ==
    [ document_type |-> "balance_sheet", financial_kpis |-> kpis,
      confidence_score |-> confidence, retrieved_from |-> << >> ]

StrongKpi == KPI(Some(1600), Some(40), Some(300), Some(100), Some(200), Some(1000))

\* what _analyze_document may return for one upload: None, or an analysis
\* with one indicator snapshot
DocumentOutcomes ==
    { None, Some(DocAnalysis(<< StrongKpi >>, 70)) }

Company(id, name, situation, days) ==
    [ cnpj |-> id, corporate_name |-> name, trade_name |-> None,
      main_activity |-> None, legal_situation |-> situation,
      registration_days |-> days ]

\* what cnpj_client.get_company_data may return
RegistryAnswers ==
    { None,
      Some(Company("11222333000181", "Empresa Teste LTDA", Some("ATIVA"), Some(2190))),
      Some(Company("11.222.333/0001-81", "", Some("BAIXADA"), Some(400))) }

WebResult(content, kind) == [content |-> content, search_type |-> kind]

\* what the three searches of _search_web_information may collect
WebAnswers ==
    { << >>,
      << WebResult("Empresa responde a processo de execucao fiscal", "legal"),
         WebResult("Empresa recebe premio de inovacao", "news") >> }

\* answers of the generation service to the narrative request
NarrativeAnswers(id_text) ==
    { "A empresa de CNPJ " \o id_text \o " apresenta indicadores compativeis "
      \o "com o seu porte. A situacao cadastral foi verificada. "
      \o "Recomenda-se acompanhar a evolucao dos indicadores.",
      "Analise breve." }

\* answers of the generation service to the feedback request
FeedbackAnswers == { "Revisar a coerencia entre os scores e a recomendacao.", "" }

\* what one call of the generation service gives: one of its answers, or
\* None when the call raised (the service is down for the whole request)
GenerationAnswers(texts) ==
    IF generation_up THEN {Some(t) : t \in texts} ELSE { None }

\* what an execute() call may raise from outside the modelled code (the
\* registry client, the vector store, the runtime)
StageErrors == { "falha transitoria" }

-----------------------------------------------------------------------------
(* The nodes. Each action is one execute() call of the node's agent, from   *)
(* its first note to its return or to the end of handle_error; the node's   *)
(* own code before the call (risk_analyst only) runs with the first call of *)
(* a visit.                                                                 *)

\* analyze_credit: AgentState(request_id, cnpj, documents), then graph.ainvoke
Init ==
    /\ request_id = "req-1"
    /\ cnpj = RequestCnpj
    /\ documents \in DocumentInputs
    /\ company_data = None
    /\ web_search_results = << >>
    /\ document_analysis = << >>
    /\ risk_analysis = None
    /\ quality_validation = None
    /\ retry_count = 0
    /\ max_retries = DefaultMaxRetries
    /\ processing_notes = << >>
    /\ pc = "data_gatherer"
    /\ attempts = 0
    /\ steps = 0
    /\ trace = << "data_gatherer" >>
    /\ error = None
    /\ entry_retry = 0
    /\ serial = 0
    /\ approved_id = 0
    /\ generation_up \in BOOLEAN
    /\ vector_store = << >>
    /\ call = None

\* `corporate_name or trade_name or ""`
company_name(company) ==
    IF company.corporate_name # "" THEN company.corporate_name
    ELSE IF TruthyStr(company.trade_name) THEN Val(company.trade_name)
    ELSE ""

\* DataGathererAgent.execute returning normally
DataGathererExecute ==
    /\ pc = "data_gatherer"
    /\ \E lookup \in RegistryAnswers :
       \E found \in IF lookup = None THEN { << >> } ELSE WebAnswers :
        LET n0 == add_processing_note(processing_notes, "DataGatherer",
                      "Iniciando coleta de dados para CNPJ " \o cnpj)
            web_results == IF company_name(Val(lookup)) = "" THEN << >> ELSE found
        IN  IF lookup # None
            THEN /\ company_data' = lookup
                 /\ web_search_results' = web_search_results \o web_results
                 /\ processing_notes' =
                      add_processing_note(
                        add_processing_note(
                          add_processing_note(n0, "DataGatherer",
                            "Dados da Receita Federal coletados com sucesso"),
                          "DataGatherer",
                          "Coletados " \o ToString(Len(web_results))
                          \o " resultados de busca web"),
                        "DataGatherer", "Coleta de dados concluida")
            ELSE /\ UNCHANGED << company_data, web_search_results >>
                 /\ processing_notes' =
                      add_processing_note(
                        add_processing_note(n0, "DataGatherer",
                          "Nao foi possivel obter dados da Receita Federal"),
                        "DataGatherer", "Coleta de dados concluida")
    /\ Advance("data_gatherer", "")
    /\ UNCHANGED << vector_store, call, generation_up, request_id, cnpj, documents, document_analysis, risk_analysis,
                    quality_validation, retry_count, max_retries, serial,
                    approved_id >>

\* DataGathererAgent.execute raising (the registry client raised)
DataGathererFail ==
    /\ pc = "data_gatherer"
    /\ \E err \in StageErrors :
        Raised("DataGatherer", err,
               add_processing_note(processing_notes, "DataGatherer",
                   "Iniciando coleta de dados para CNPJ " \o cnpj))
    /\ UNCHANGED << vector_store, call, generation_up, request_id, cnpj, documents, company_data, web_search_results,
                    document_analysis, risk_analysis, quality_validation,
                    max_retries, serial, approved_id >>

\* the analyses _analyze_document returned and execute appended, in order
Appended(outcomes) ==
    Flatten([i \in 1..Len(outcomes) |-> outcomes[i]])

\* VectorStore.clear
clear(store) == << >>

\* the store once the first n uploads were handled: add_document is reached
\* for the uploads that get an analysis
StoreAfter(store0, docs, outcomes, n) ==
    store0 \o Flatten([j \in 1..n |-> IF outcomes[j] = None THEN << >>
                                       ELSE << docs[j].filename >>])

\* the analyses, each extracted from the store as it was at that point
Retrieving(store0, docs, outcomes) ==
    [i \in 1..Len(outcomes) |->
        IF outcomes[i] = None THEN None
        ELSE Some([Val(outcomes[i]) EXCEPT
                     !.retrieved_from = StoreAfter(store0, docs, outcomes, i)])]

\* DocumentAnalystAgent.execute returning normally
DocumentAnalystExecute ==
    /\ pc = "document_analyst"
    /\ LET n0 == add_processing_note(processing_notes, "DocumentAnalyst",
                     "Iniciando analise de " \o ToString(Len(documents))
                     \o " documentos")
       IN  IF Len(documents) = 0
           THEN /\ processing_notes' =
                     add_processing_note(n0, "DocumentAnalyst",
                         "Nenhum documento fornecido para analise")
                /\ document_analysis' = document_analysis
                /\ vector_store' = vector_store
           ELSE \E outcomes \in [1..Len(documents) -> DocumentOutcomes] :
                /\ \A i \in 1..Len(documents) :
                      documents[i].content = "" => outcomes[i] = None
                /\ document_analysis' =
                     document_analysis
                     \o Appended(Retrieving(clear(vector_store), documents, outcomes))
                /\ vector_store' = StoreAfter(clear(vector_store), documents,
                                              outcomes, Len(documents))
                /\ processing_notes' =
                     add_processing_note(n0, "DocumentAnalyst",
                         "Analise concluida: " \o ToString(Len(document_analysis'))
                         \o " documentos processados")
    /\ Advance("document_analyst", "")
    /\ UNCHANGED << call, generation_up, request_id, cnpj, documents, company_data, web_search_results,
                    risk_analysis, quality_validation, retry_count, max_retries,
                    serial, approved_id >>

\* DocumentAnalystAgent.execute raising (the vector store could not be cleared)
DocumentAnalystFail ==
    /\ pc = "document_analyst"
    /\ \E err \in StageErrors :
        Raised("DocumentAnalyst", err,
               add_processing_note(processing_notes, "DocumentAnalyst",
                   "Iniciando analise de " \o ToString(Len(documents))
                   \o " documentos"))
    /\ UNCHANGED << vector_store, call, generation_up, request_id, cnpj, documents, company_data, web_search_results,
                    document_analysis, risk_analysis, quality_validation,
                    max_retries, serial, approved_id >>

\* the notes when RiskAnalystAgent.execute starts: the node's feedback note
\* on the first call of a visit, then the agent's first note
RiskStartNotes ==
    add_processing_note(
        IF attempts = 0 THEN NodeNotes(quality_validation, processing_notes)
        ELSE processing_notes,
        "RiskAnalyst", "Iniciando analise de risco consolidada")

RiskStartValidation ==
    IF attempts = 0 THEN NodeValidation(quality_validation) ELSE quality_validation

\* _risk_analyst_node and RiskAnalystAgent.execute returning normally
RiskAnalystExecute ==
    /\ pc = "risk_analyst"
    /\ LET fin == _analyze_financial_health(document_analysis)
           non == _analyze_non_financial_risks(company_data, web_search_results)
           confidence == _calculate_confidence_level(company_data,
                             document_analysis, web_search_results)
       IN  \E llm \in GenerationAnswers(NarrativeAnswers(cnpj)) :
        LET ra == RiskAnalysisOf(fin, non, confidence, llm, serial + 1)
        IN  /\ risk_analysis' = Some(ra)
            /\ processing_notes' =
                 add_processing_note(RiskStartNotes, "RiskAnalyst",
                     "Analise concluida: " \o ra.recommendation \o " (score: "
                     \o Fmt1(ra.overall_risk_score) \o ")")
    /\ quality_validation' = RiskStartValidation
    /\ serial' = serial + 1
    /\ Advance("risk_analyst", "")
    /\ UNCHANGED << vector_store, call, generation_up, request_id, cnpj, documents, company_data, web_search_results,
                    document_analysis, retry_count, max_retries, approved_id >>

\* _risk_analyst_node and RiskAnalystAgent.execute raising
RiskAnalystFail ==
    /\ pc = "risk_analyst"
    /\ \E err \in StageErrors : Raised("RiskAnalyst", err, RiskStartNotes)
    /\ quality_validation' = RiskStartValidation
    /\ UNCHANGED << vector_store, call, generation_up, request_id, cnpj, documents, company_data, web_search_results,
                    document_analysis, risk_analysis, max_retries, serial,
                    approved_id >>

\* the checks execute computes on the current state
CurrentChecks ==
    _perform_consistency_checks(cnpj, company_data, web_search_results,
                                document_analysis, risk_analysis)

\* QualityAssuranceAgent.execute returning normally: early without a risk
\* analysis, otherwise with the report it built. The conditional edge
\* (_should_retry_analysis) is taken when it returns.
QualityAssuranceExecute ==
    /\ pc = "quality_assurance"
    /\ risk_analysis # None => ~ValidationNotesRaise(CurrentChecks)
    /\ LET n0 == add_processing_note(processing_notes, "QualityAssurance",
                     "Iniciando validacao de qualidade")
       IN  IF risk_analysis = None
           THEN /\ processing_notes' =
                     add_processing_note(n0, "QualityAssurance",
                         "Nenhuma analise de risco encontrada para validar")
                /\ Advance("quality_assurance",
                       _should_retry_analysis(quality_validation, retry_count,
                                              max_retries))
                /\ UNCHANGED << quality_validation, approved_id >>
           ELSE \E llm \in IF _determine_quality_status(CurrentChecks) = REJECTED
                          THEN GenerationAnswers(FeedbackAnswers)
                          ELSE { None } :
                LET qv == QualityValidationOf(CurrentChecks, llm,
                                              Val(risk_analysis).id)
                IN  /\ quality_validation' = Some(qv)
                    /\ processing_notes' =
                         add_processing_note(n0, "QualityAssurance",
                             "Validacao concluida: " \o qv.status)
                    /\ approved_id' =
                         IF qv.status = APPROVED /\ approved_id = 0
                         THEN Val(risk_analysis).id ELSE approved_id
                    /\ Advance("quality_assurance",
                           _should_retry_analysis(Some(qv), retry_count,
                                                  max_retries))
    /\ UNCHANGED << vector_store, call, generation_up, request_id, cnpj, documents, company_data, web_search_results,
                    document_analysis, risk_analysis, retry_count, max_retries,
                    serial >>

\* QualityAssuranceAgent.execute raising: _generate_validation_notes sums the
\* check values, and a None or "" among them is a TypeError, which goes to
\* handle_error like any other exception
QualityAssuranceFail ==
    /\ pc = "quality_assurance"
    /\ risk_analysis # None
    /\ ValidationNotesRaise(CurrentChecks)
    /\ Raised("QualityAssurance", "unsupported operand type(s) for +",
              add_processing_note(processing_notes, "QualityAssurance",
                  "Iniciando validacao de qualidade"))
    /\ UNCHANGED << vector_store, call, generation_up, request_id, cnpj, documents, company_data, web_search_results,
                    document_analysis, risk_analysis, quality_validation,
                    max_retries, serial, approved_id >>

Next ==
    \/ DataGathererExecute
    \/ DataGathererFail
    \/ DocumentAnalystExecute
    \/ DocumentAnalystFail
    \/ RiskAnalystExecute
    \/ RiskAnalystFail
    \/ QualityAssuranceExecute
    \/ QualityAssuranceFail

\* one request going through analyze_credit
Spec == Init /\ [][Next]_vars

-----------------------------------------------------------------------------
(* A node handed a state built directly, as tests/test_agents.py does: the  *)
(* run starts either at the entry point or at quality_assurance, on an      *)
(* AgentState that holds the request only, with any retry counter.          *)

DirectInit ==
    /\ request_id = "req-1"
    /\ cnpj = RequestCnpj
    /\ documents \in DocumentInputs
    /\ company_data = None
    /\ web_search_results = << >>
    /\ document_analysis = << >>
    /\ risk_analysis = None
    /\ quality_validation = None
    /\ max_retries = DefaultMaxRetries
    /\ processing_notes = << >>
    /\ pc \in {"data_gatherer", "quality_assurance"}
    /\ retry_count \in IF pc = "quality_assurance" THEN 0..max_retries ELSE {0}
    /\ attempts = 0
    /\ steps = 0
    /\ trace = << pc >>
    /\ error = None
    /\ entry_retry = retry_count
    /\ serial = 0
    /\ approved_id = 0
    /\ generation_up \in BOOLEAN
    /\ vector_store = << >>
    /\ call = None

DirectSpec == DirectInit /\ [][Next]_vars

-----------------------------------------------------------------------------
(* Two requests at the same time. credit_analysis_graph is one object for   *)
(* the process (line 190), so both requests run on the same                 *)
(* DocumentAnalystAgent and on its vector store; everything else a stage    *)
(* touches is the request's own AgentState. A request is suspended only     *)
(* where a coroutine awaits an external call; DocumentAnalystAgent.execute  *)
(* has no such point (the document processor's coroutines await nothing     *)
(* and the store's methods are plain calls), so the other request's         *)
(* document analysis happens as a whole between two steps of this one.      *)

\* the uploads of the other request
OtherDocumentInputs == { << Document("outro.pdf", "pdf") >> }

\* DocumentAnalystAgent.execute of the other request, each of its uploads
\* getting an analysis or not
ConcurrentDocumentAnalyst ==
    /\ pc \in Nodes
    /\ \E docs \in OtherDocumentInputs :
       \E outcomes \in [1..Len(docs) -> DocumentOutcomes] :
          vector_store' = StoreAfter(clear(vector_store), docs, outcomes, Len(docs))
    /\ vector_store' # vector_store
    /\ UNCHANGED << request_id, cnpj, documents, company_data, web_search_results,
                    document_analysis, risk_analysis, quality_validation,
                    retry_count, max_retries, processing_notes, pc, attempts,
                    steps, trace, error, entry_retry, serial, approved_id,
                    generation_up, call >>

ConcNext ==
    \/ Next
    \/ ConcurrentDocumentAnalyst

ConcSpec == Init /\ [][ConcNext]_vars

-----------------------------------------------------------------------------
(* The agents' methods called on their own, as tests/test_agents.py calls   *)
(* them: one call per run, its arguments drawn when the run starts. No      *)
(* pipeline runs; the AgentState variables keep the values below.           *)

Pending(fn, input) == [fn |-> fn, input |-> input, output |-> None, done |-> FALSE]

Returned(c, output) == [c EXCEPT !.output = output, !.done = TRUE]

\* scores around every threshold of the recommendation rules, in hundredths
ScoreGrid == {0, 200, 210, 300, 310, 400, 410, 540, 550, 740, 750, 1000}

\* risk_analyst._determine_recommendation(overall_score, financial_score, non_financial_score)
ResolverCalls ==
    { Pending("_determine_recommendation", << o, f, n >>) :
        o \in ScoreGrid, f \in ScoreGrid, n \in ScoreGrid }

\* a RiskAnalysis built field by field, as tests/test_agents.py:180-189 builds one
StoredAnalysis(overall, financial, non_financial, recommendation) ==
    [ financial_health_score |-> financial,
      non_financial_risk_score |-> non_financial,
      overall_risk_score |-> overall,
      positive_factors |-> << >>,
      negative_factors |-> << >>,
      recommendation |-> recommendation,
      analysis_text |-> "Test analysis",
      confidence_level |-> 800,
      id |-> 0 ]

\* quality_assurance._check_recommendation_logic(state), state.risk_analysis set
RecommendationCheckCalls ==
    { Pending("_check_recommendation_logic", Some(StoredAnalysis(o, f, n, r))) :
        o \in ScoreGrid, f \in ScoreGrid, n \in ScoreGrid,
        r \in {APPROVE, REVIEW, REJECT} }

CheckNameSet == {CheckNames[i] : i \in 1..Len(CheckNames)}

\* quality_assurance._determine_quality_status(checks): every dictionary of
\* booleans, and those where analysis_text_quality is None or ''
QualityStatusCalls ==
    { Pending("_determine_quality_status", [b EXCEPT !["analysis_text_quality"] = v]) :
        b \in [CheckNameSet -> {PyTrue, PyFalse}],
        v \in {PyTrue, PyFalse, PyNone, PyEmptyStr} }

\* a well-formed narrative that names neither the tax id nor the company
AnonymousNarrative ==
    "A empresa apresenta indicadores compativeis com o seu porte. "
    \o "A situacao cadastral foi verificada. "
    \o "Recomenda-se acompanhar a evolucao dos indicadores."

\* stored assessments whose overall score is at, over or just under 7.5
HighAssessments ==
    { [ StoredAnalysis(o, f, n, r) EXCEPT !.analysis_text = t, !.negative_factors = neg ] :
        o \in {740, 750, 1000}, f \in {200, 800}, n \in {300, 900},
        r \in {APPROVE, REVIEW, REJECT},
        t \in NarrativeAnswers(RequestCnpj) \cup {AnonymousNarrative},
        neg \in { << >>, << "ROA baixo: 2.00%" >> } }

\* quality_assurance.execute, lines 35-38: the checks of a state that holds
\* an assessment, then the status they give
ConsistencyStatusCalls ==
    { Pending("_perform_consistency_checks",
              [ company_data |-> c, web_search_results |-> w,
                document_analysis |-> d, risk_analysis |-> Some(ra) ]) :
        c \in RegistryAnswers, w \in WebAnswers,
        d \in { << >>, << DocAnalysis(<< StrongKpi >>, 70) >> },
        ra \in HighAssessments }

\* indicator snapshots on both sides of every threshold of the four blocks;
\* an absent indicator is None, and amounts of 0 occur
UnitKpis ==
    { KPI(roa, debt, liquidity[1], liquidity[2], margin[1], margin[2]) :
        roa \in {None, Some(200), Some(500), Some(1000), Some(1500)},
        debt \in {None, Some(50), Some(100), Some(200), Some(250)},
        liquidity \in { << None, None >>, << Some(0), Some(100) >>,
                        << Some(150), Some(100) >>, << Some(100), Some(100) >>,
                        << Some(50), Some(100) >>, << Some(100), Some(0) >> },
        margin \in { << None, None >>, << Some(100), Some(1000) >>,
                     << Some(50), Some(1000) >>, << Some(20), Some(1000) >>,
                     << Some(-100), Some(1000) >>, << Some(0), Some(1000) >> } }

\* lists of document analyses that hold no indicator snapshot
UnitDocsWithoutKpis ==
    { << >>, << DocAnalysis(<< >>, 70) >>,
      << DocAnalysis(<< >>, 70), DocAnalysis(<< >>, 50) >> }

WeakKpi == KPI(Some(200), Some(250), Some(50), Some(100), Some(-100), Some(1000))

MixedKpi == KPI(Some(1000), None, Some(100), Some(100), None, None)

\* the snapshots that lists of several snapshots are built from
HistoryKpis == { StrongKpi, WeakKpi, MixedKpi }

\* lists of document analyses holding two or three snapshots: one per
\* document, two in one document, and with a last document that holds none
UnitDocsWithHistory ==
    { << DocAnalysis(<< k1 >>, 70), DocAnalysis(<< k2 >>, 70) >> :
        k1, k2 \in HistoryKpis }
    \cup { << DocAnalysis(<< k1, k2 >>, 70) >> : k1, k2 \in HistoryKpis }
    \cup { << DocAnalysis(<< k1 >>, 70), DocAnalysis(<< k2 >>, 70),
              DocAnalysis(<< >>, 50) >> : k1, k2 \in HistoryKpis }
    \cup { << DocAnalysis(<< k1 >>, 70), DocAnalysis(<< k2, k3 >>, 70) >> :
              k1, k2, k3 \in HistoryKpis }

\* risk_analyst._analyze_financial_health(state), by state.document_analysis
FinancialHealthCalls ==
    { Pending("_analyze_financial_health", d) :
        d \in UnitDocsWithoutKpis
               \cup { << DocAnalysis(<< k >>, 70) >> : k \in UnitKpis }
               \cup { << DocAnalysis(<< StrongKpi >>, 70), DocAnalysis(<< >>, 50) >> }
               \cup UnitDocsWithHistory }

\* registry records: no record, and records by registration status and by
\* days since registration (1825 days are five years of 365 days)
UnitCompanies ==
    { None } \cup
    { Some(Company(RequestCnpj, "Empresa Teste LTDA", situation, days)) :
        situation \in {Some("ATIVA"), Some("BAIXADA"), Some("INATIVA"), None},
        days \in {None, Some(400), Some(730), Some(1824), Some(1825), Some(2190)} }

\* web results by what the scan finds in them: a legal keyword, a negative
\* one, both, a positive one, none
UnitWebResults ==
    { WebResult("Empresa responde a processo de execucao fiscal", "legal"),
      WebResult("Empresa recebe multa por irregularidade", "news"),
      WebResult("Empresa sofre processo por fraude", "legal"),
      WebResult("Empresa recebe premio de inovacao", "news"),
      WebResult("Empresa inaugura nova sede", "general") }

\* result lists of up to two results, and three results of one kind
UnitWebLists ==
    { << >> } \cup { << a >> : a \in UnitWebResults }
    \cup { << a, b >> : a \in UnitWebResults, b \in UnitWebResults }
    \cup { << a, a, a >> : a \in UnitWebResults }

\* risk_analyst._analyze_non_financial_risks(state), by state.company_data
\* and state.web_search_results
NonFinancialCalls ==
    { Pending("_analyze_non_financial_risks",
              [ company_data |-> c, web_search_results |-> w ]) :
        c \in UnitCompanies, w \in UnitWebLists }

\* snapshots from the weakest to the strongest
UnitDocsWithKpis ==
    { << DocAnalysis(<< k >>, 70) >> :
        k \in { StrongKpi,
                KPI(Some(200), Some(250), Some(50), Some(100), Some(-100), Some(1000)),
                KPI(Some(500), Some(200), Some(100), Some(100), Some(20), Some(1000)),
                KPI(Some(1000), Some(100), None, None, None, None),
                KPI(None, None, None, None, None, None) } }

\* risk_analyst.execute(state), by the evidence the state holds
ExecuteCalls ==
    { Pending("execute",
              [ company_data |-> c, web_search_results |-> w, document_analysis |-> d ]) :
        c \in UnitCompanies, w \in UnitWebLists,
        d \in UnitDocsWithoutKpis \cup UnitDocsWithKpis }

\* risk_analyst._generate_detailed_analysis(state, ...), by state.document_analysis
NarrativeCalls ==
    { Pending("_generate_detailed_analysis", d) :
        d \in UnitDocsWithoutKpis \cup UnitDocsWithHistory
               \cup { << DocAnalysis(<< k >>, 70) >> : k \in HistoryKpis }
               \cup { << DocAnalysis(<< >>, 50), DocAnalysis(<< k >>, 70) >> :
                         k \in HistoryKpis } }

UnitCalls ==
    ResolverCalls \cup RecommendationCheckCalls \cup QualityStatusCalls
    \cup ConsistencyStatusCalls \cup FinancialHealthCalls
    \cup NonFinancialCalls \cup ExecuteCalls \cup NarrativeCalls

UnitInit ==
    /\ call \in UnitCalls
    /\ request_id = "test"
    /\ cnpj = RequestCnpj
    /\ documents = << >>
    /\ company_data = None
    /\ web_search_results = << >>
    /\ document_analysis = << >>
    /\ risk_analysis = None
    /\ quality_validation = None
    /\ retry_count = 0
    /\ max_retries = DefaultMaxRetries
    /\ processing_notes = << >>
    /\ pc = "call"
    /\ attempts = 0
    /\ steps = 0
    /\ trace = << >>
    /\ error = None
    /\ entry_retry = 0
    /\ serial = 0
    /\ approved_id = 0
    /\ generation_up = TRUE
    /\ vector_store = << >>

UnitIdle ==
    UNCHANGED << request_id, cnpj, documents, company_data, web_search_results,
                 document_analysis, risk_analysis, quality_validation,
                 retry_count, max_retries, processing_notes, pc, attempts,
                 steps, trace, error, entry_retry, serial, approved_id,
                 generation_up, vector_store >>

CallDetermineRecommendation ==
    /\ pc = "call"
    /\ ~call.done
    /\ call.fn = "_determine_recommendation"
    /\ call' = Returned(call, _determine_recommendation(
                                call.input[1], call.input[2], call.input[3]))
    /\ UnitIdle

CallCheckRecommendationLogic ==
    /\ pc = "call"
    /\ ~call.done
    /\ call.fn = "_check_recommendation_logic"
    /\ call' = Returned(call, _check_recommendation_logic(call.input))
    /\ UnitIdle

CallDetermineQualityStatus ==
    /\ pc = "call"
    /\ ~call.done
    /\ call.fn = "_determine_quality_status"
    /\ call' = Returned(call, _determine_quality_status(call.input))
    /\ UnitIdle

CallPerformConsistencyChecks ==
    /\ pc = "call"
    /\ ~call.done
    /\ call.fn = "_perform_consistency_checks"
    /\ LET consistency_checks ==
               _perform_consistency_checks(cnpj, call.input.company_data,
                    call.input.web_search_results, call.input.document_analysis,
                    call.input.risk_analysis)
           status == _determine_quality_status(consistency_checks)
       IN  call' = Returned(call, [ consistency_checks |-> consistency_checks,
                                    status |-> status ])
    /\ UnitIdle

CallAnalyzeFinancialHealth ==
    /\ pc = "call"
    /\ ~call.done
    /\ call.fn = "_analyze_financial_health"
    /\ call' = Returned(call, _analyze_financial_health(call.input))
    /\ UnitIdle

CallAnalyzeNonFinancialRisks ==
    /\ pc = "call"
    /\ ~call.done
    /\ call.fn = "_analyze_non_financial_risks"
    /\ call' = Returned(call, _analyze_non_financial_risks(
                                call.input.company_data, call.input.web_search_results))
    /\ UnitIdle

\* RiskAnalystAgent.execute on a state built directly, the narrative being
\* the one tests/test_agents.py:103-104 patches in; the output is
\* state.risk_analysis
CallExecute ==
    /\ pc = "call"
    /\ ~call.done
    /\ call.fn = "execute"
    /\ LET fin == _analyze_financial_health(call.input.document_analysis)
           non == _analyze_non_financial_risks(call.input.company_data,
                                               call.input.web_search_results)
           confidence == _calculate_confidence_level(call.input.company_data,
                             call.input.document_analysis,
                             call.input.web_search_results)
       IN  call' = Returned(call, RiskAnalysisOf(fin, non, confidence,
                                      Some("Analise sem dados disponiveis"), 1))
    /\ UnitIdle

\* the prompt's financial section and the text returned
CallGenerateDetailedAnalysis ==
    /\ pc = "call"
    /\ ~call.done
    /\ call.fn = "_generate_detailed_analysis"
    /\ LET fin == _analyze_financial_health(call.input)
           non == _analyze_non_financial_risks(None, << >>)
       IN  \E llm \in GenerationAnswers(NarrativeAnswers(cnpj)) :
             call' = Returned(call,
                        [ financial_info |-> financial_info(call.input),
                          analysis_text |->
                            _generate_detailed_analysis(llm, fin.score, non.score) ])
    /\ UnitIdle

UnitNext ==
    \/ CallDetermineRecommendation
    \/ CallCheckRecommendationLogic
    \/ CallDetermineQualityStatus
    \/ CallPerformConsistencyChecks
    \/ CallAnalyzeFinancialHealth
    \/ CallAnalyzeNonFinancialRisks
    \/ CallExecute
    \/ CallGenerateDetailedAnalysis

UnitSpec == UnitInit /\ [][UnitNext]_vars

-----------------------------------------------------------------------------
(* src/main.py: the POST /analyze-credit handler. A request is the form's   *)
(* cnpj and its uploads; an upload is its file name, its content and the    *)
(* length of the content in bytes (the content itself is kept short). The   *)
(* handler validates the request, hands it to the graph's analyze_credit    *)
(* and turns what comes back into the HTTP response, held in call.output.   *)

\* settings.max_file_size (config.py): 10 * 1024 * 1024 bytes
max_file_size == 10485760

\* settings.allowed_file_types (config.py)
allowed_file_types == {".pdf", ".docx", ".png", ".jpg", ".jpeg", ".tiff"}

\* str.endswith
EndsWith(text, suffix) ==
    /\ Len(text) >= Len(suffix)
    /\ SubSeq(text, Len(text) - Len(suffix) + 1, Len(text)) = suffix

Upload(name, content, size) == [filename |-> name, content |-> content, size |-> size]

HTTPException(status_code, detail) == [status_code |-> status_code, detail |-> detail]

\* the HTTPException the cnpj validation raises (lines 118-123), or None
cnpj_error(raw) ==
    IF Len(DigitsOf(raw)) # 14
    THEN Some(HTTPException(400, "CNPJ deve ter 14 digitos"))
    ELSE None

\* what the check of one upload raises (lines 133-146), or None
upload_error(file) ==
    IF ~(\E ext \in allowed_file_types : EndsWith(Lower(file.filename), ext))
    THEN Some("Tipo de arquivo nao suportado: " \o file.filename)
    ELSE IF file.size > max_file_size
    THEN Some("Arquivo muito grande: " \o file.filename)
    ELSE None

\* what the loop over the uploads raises (lines 131-152): the error of the
\* first upload that has one, or None
file_error(files) ==
    LET bad == {i \in 1..Len(files) : upload_error(files[i]) # None}
    IN  IF bad = {} THEN None
        ELSE upload_error(files[CHOOSE i \in bad : \A j \in bad : i <= j])

\* the documents list the loop builds
documents_of(files) ==
    [i \in 1..Len(files) |-> Document(files[i].filename, files[i].content)]

\* the cnpj field of the requests
CnpjInputs ==
    { "11.222.333/0001-81", RequestCnpj, "123", "112223330001811",
      "1122233300018a", "" }

\* uploads the handler takes: an allow-listed extension in either case, a
\* size up to the ceiling
AcceptedUploads ==
    { Upload("balanco.pdf", "pdf", max_file_size), Upload("BALANCO.PDF", "", 0) }

\* uploads the handler refuses: by the extension, by the size, by both
RefusedUploads ==
    { Upload("test.txt", "", 0), Upload("test.txt", "pdf", max_file_size),
      Upload("balanco.pdf.exe", "pdf", max_file_size),
      Upload("pdf", "pdf", max_file_size),
      Upload("balanco.pdf", "pdf", max_file_size + 1),
      Upload("scan.jpeg", "pdf", max_file_size + 1),
      Upload("test.txt", "pdf", max_file_size + 1) }

\* no upload, one upload, and a refused upload before or after an accepted one
FileLists ==
    { << >> } \cup { << f >> : f \in AcceptedUploads \cup RefusedUploads }
    \cup { << Upload("balanco.pdf", "pdf", max_file_size), f >> : f \in RefusedUploads }
    \cup { << f, Upload("balanco.pdf", "pdf", max_file_size) >> : f \in RefusedUploads }

\* the requests: every cnpj with every file list but, for the cnpj of 14
\* plain digits, without uploads only
ApiCalls ==
    { Pending("analyze_credit", [ cnpj |-> c, files |-> f ]) :
        c \in CnpjInputs \ { RequestCnpj }, f \in FileLists }
    \cup { Pending("analyze_credit", [ cnpj |-> RequestCnpj, files |-> << >> ]) }

\* the request has arrived; no AgentState exists yet
ApiInit ==
    /\ call \in ApiCalls
    /\ pc = "request"
    /\ request_id = ""
    /\ cnpj = ""
    /\ documents = << >>
    /\ company_data = None
    /\ web_search_results = << >>
    /\ document_analysis = << >>
    /\ risk_analysis = None
    /\ quality_validation = None
    /\ retry_count = 0
    /\ max_retries = DefaultMaxRetries
    /\ processing_notes = << >>
    /\ attempts = 0
    /\ steps = 0
    /\ trace = << >>
    /\ error = None
    /\ entry_retry = 0
    /\ serial = 0
    /\ approved_id = 0
    /\ generation_up \in BOOLEAN
    /\ vector_store = << >>

\* lines 116-146: a validation raises HTTPException, which the handler
\* re-raises (lines 180-181)
AnalyzeCreditReject ==
    /\ pc = "request"
    /\ LET first == cnpj_error(call.input.cnpj)
           second == file_error(call.input.files)
       IN  /\ first # None \/ second # None
           /\ call' = Returned(call, IF first # None THEN Val(first)
                                     ELSE HTTPException(400, Val(second)))
    /\ pc' = "HTTP_400"
    /\ UNCHANGED << request_id, cnpj, documents, company_data, web_search_results,
                    document_analysis, risk_analysis, quality_validation,
                    retry_count, max_retries, processing_notes, attempts,
                    steps, trace, error, entry_retry, serial, approved_id,
                    generation_up, vector_store >>

\* lines 116-161 passing every validation: credit_analysis_graph.analyze_credit
\* is called and builds the AgentState
AnalyzeCreditStart ==
    /\ pc = "request"
    /\ cnpj_error(call.input.cnpj) = None
    /\ file_error(call.input.files) = None
    /\ request_id' = "req-1"
    /\ cnpj' = DigitsOf(call.input.cnpj)
    /\ documents' = documents_of(call.input.files)
    /\ pc' = "data_gatherer"
    /\ trace' = << "data_gatherer" >>
    /\ UNCHANGED << call, company_data, web_search_results, document_analysis,
                    risk_analysis, quality_validation, retry_count, max_retries,
                    processing_notes, attempts, steps, error, entry_retry,
                    serial, approved_id, generation_up, vector_store >>

\* lines 164-178: the graph returned its final state
AnalyzeCreditRespond ==
    /\ pc = "END"
    /\ call.fn = "analyze_credit"
    /\ call' = Returned(call, [ status_code |-> 200,
                                request_id |-> request_id,
                                cnpj |-> cnpj,
                                risk_analysis |-> risk_analysis,
                                quality_validation |-> quality_validation,
                                processing_status |-> "completed" ])
    /\ pc' = "HTTP_200"
    /\ UNCHANGED << request_id, cnpj, documents, company_data, web_search_results,
                    document_analysis, risk_analysis, quality_validation,
                    retry_count, max_retries, processing_notes, attempts,
                    steps, trace, error, entry_retry, serial, approved_id,
                    generation_up, vector_store >>

\* lines 182-187: the graph's analyze_credit raised; the handler logs the
\* exception and raises its own
AnalyzeCreditFail ==
    /\ pc = "ERROR"
    /\ call.fn = "analyze_credit"
    /\ call' = Returned(call, HTTPException(500,
                                "Erro interno do servidor durante analise"))
    /\ pc' = "HTTP_500"
    /\ UNCHANGED << request_id, cnpj, documents, company_data, web_search_results,
                    document_analysis, risk_analysis, quality_validation,
                    retry_count, max_retries, processing_notes, attempts,
                    steps, trace, error, entry_retry, serial, approved_id,
                    generation_up, vector_store >>

ApiNext ==
    \/ AnalyzeCreditReject
    \/ AnalyzeCreditStart
    \/ Next
    \/ AnalyzeCreditRespond
    \/ AnalyzeCreditFail

ApiSpec == ApiInit /\ [][ApiNext]_vars

-----------------------------------------------------------------------------
(* Properties *)

\* the run is over: analyze_credit returned the final state or re-raised
Done == pc \in {"END", "ERROR"}

\* how many times the Scoring stage (risk_analyst) has been entered
ScoringPasses == CountIn(trace, "risk_analyst")

Last(seq) == seq[Len(seq)]

Rejected(qv) == qv # None /\ Val(qv).status = REJECTED

\* the notes _risk_analyst_node appends, which carry the feedback text
FeedbackNotes(notes) ==
    Cardinality({i \in 1..Len(notes) :
                    Len(notes[i]) >= 13 /\ SubSeq(notes[i], 1, 13) = "Feedback QA: "})

\* C1: while no stage has failed (the retry counter is still 0) the Scoring
\* stage is entered at most ceiling + 1 times in a run, however often
\* Validating rejects: an initial pass and one per Quality-Gate-driven retry.
C1_ScoringBoundedByCeiling ==
    retry_count = 0 => ScoringPasses <= max_retries + 1

\* C2: every run terminates. Every step of a run lowers a measure that
\* cannot go below zero: the supersteps the graph engine still allows, then
\* the failure retries still allowed, then whether the run is over.
Measure ==
    (RecursionLimit - steps) * (max_retries + 2)
    + (max_retries - retry_count)
    + (IF Done THEN 0 ELSE 1)

C3_RetryCountWithinCeiling == retry_count \in 0..max_retries

\* the counter at the ceiling in a run that also saw a Quality-Gate-driven retry
C3_Witness == retry_count = max_retries /\ ScoringPasses >= 2

\* C4: once a report is Approved the run is over with that report, no
\* assessment has been created since, and the assessment held is the
\* approved one.
C4_ApprovedIsFinal ==
    approved_id # 0 =>
        /\ pc = "END"
        /\ error = None
        /\ serial = approved_id
        /\ risk_analysis # None /\ Val(risk_analysis).id = approved_id
        /\ quality_validation # None
        /\ Val(quality_validation).status = APPROVED
        /\ Val(quality_validation).of = approved_id

\* an approval of an assessment computed on a retry pass
C4_Witness == pc = "END" /\ approved_id >= 2

\* C5: stage failures leave the Quality-Gate-driven retries alone, so a run
\* ends with a Rejected report only after the ceiling's worth of
\* Quality-Gate-driven retries has been made.
C5_FailuresLeaveGateRetries ==
    (pc = "END" /\ Rejected(quality_validation)) =>
        ScoringPasses - 1 >= max_retries

\* C6: when Validating is entered again after a Quality-Gate-driven retry,
\* the rejected report has been cleared and every retry so far has left its
\* feedback note in the log.
C6_RetryClearsReportAndNotesFeedback ==
    (pc = "quality_assurance" /\ ScoringPasses >= 2) =>
        /\ quality_validation = None
        /\ FeedbackNotes(processing_notes) = ScoringPasses - 1

\* C7: when a stage's failure ends the run, the stage entered with counter c
\* has been executed exactly ceiling - c + 1 times in this visit, the budget
\* is used up, the last note in the log is that failure, and the stage that
\* failed is the last one entered.
C7_FailingStageRunsBudgetPlusOne ==
    (pc = "ERROR" /\ Val(error).type = "Exception") =>
        /\ attempts = max_retries - entry_retry + 1
        /\ retry_count = max_retries
        /\ Contains(Last(processing_notes), "Erro no agente ")
        /\ Contains(Last(processing_notes), Val(error).message)
        /\ Last(trace) \in Nodes

\* Scoring entered with one retry already used and failing on all its three attempts
C7_Witness ==
    /\ pc = "ERROR" /\ Val(error).type = "Exception"
    /\ Last(trace) = "risk_analyst" /\ entry_retry = 1 /\ attempts = 3

\* C8: the stages are entered in the order Gathering, DocumentAnalysis,
\* Scoring, Validating; Validating is followed by Scoring or by the end of
\* the run only; the stage running is the last one entered.
C8_StageOrder ==
    /\ trace[1] = "data_gatherer"
    /\ \A i \in 1..(Len(trace) - 1) :
          << trace[i], trace[i + 1] >> \in
              { << "data_gatherer", "document_analyst" >>,
                << "document_analyst", "risk_analyst" >>,
                << "risk_analyst", "quality_assurance" >>,
                << "quality_assurance", "risk_analyst" >> }
    /\ pc \in Nodes => pc = Last(trace)
    /\ pc = "END" => Last(trace) = "quality_assurance"

\* a finished run that went back from Validating to Scoring
C8_Witness == pc = "END" /\ Len(trace) >= 6

\* C9: when Validating returns a Rejected report with the counter at the
\* ceiling, the run ends without error, the assessment is left as it was, and
\* the report is the one computed from that assessment.
C9_RejectedAtCeilingFinishes ==
    [][ ( /\ pc = "quality_assurance"
          /\ steps' = steps + 1
          /\ Rejected(quality_validation')
          /\ retry_count = max_retries )
        => ( /\ pc' = "END"
             /\ error' = None
             /\ retry_count' = retry_count
             /\ risk_analysis' = risk_analysis
             /\ Val(risk_analysis').id = serial'
             /\ Val(quality_validation').of = Val(risk_analysis').id ) ]_vars

\* a run ended with a Rejected report and the counter at the ceiling
C9_Witness ==
    pc = "END" /\ Rejected(quality_validation) /\ retry_count = max_retries

\* C10: Validating without a risk assessment leaves no report, appends its
\* two notes and changes nothing else, and the run ends there without error,
\* whatever the retry counter.
C10_NoAssessmentFinishes ==
    [][ (pc = "quality_assurance" /\ risk_analysis = None)
        => ( /\ quality_validation' = None
             /\ pc' = "END"
             /\ error' = None
             /\ Len(processing_notes') = Len(processing_notes) + 2
             /\ SubSeq(processing_notes', 1, Len(processing_notes)) = processing_notes
             /\ UNCHANGED << request_id, cnpj, documents, company_data,
                             web_search_results, document_analysis,
                             risk_analysis, retry_count, max_retries >> ) ]_vars

\* such a run ended while retries were still allowed
C10_Witness ==
    /\ pc = "END" /\ risk_analysis = None /\ quality_validation = None
    /\ retry_count < max_retries /\ Len(processing_notes) = 2

\* the call that has returned, of the method named
Called(fn) == pc = "call" /\ call.done /\ call.fn = fn

(* C11: the recommendation is the first match of: financial score <= 2.0   *)
(* gives Reject; non-financial score <= 3.0 gives Reject; overall >= 7.5   *)
(* gives Approve; overall >= 5.5 gives Review; anything else gives Reject. *)
(* A score at or under a floor gives Reject even when the overall score is *)
(* 7.5 or more.                                                            *)
C11_ResolverCascade ==
    Called("_determine_recommendation") =>
        LET overall == call.input[1]
            financial == call.input[2]
            non_financial == call.input[3]
            floor == financial <= 200 \/ non_financial <= 300
        IN  /\ floor => call.output = REJECT
            /\ ~floor /\ overall >= 750 => call.output = APPROVE
            /\ ~floor /\ overall >= 550 /\ overall < 750 => call.output = REVIEW
            /\ ~floor /\ overall < 550 => call.output = REJECT

C11_Witness ==
    /\ Called("_determine_recommendation")
    /\ call.input[1] >= 750
    /\ call.input[2] <= 200
    /\ call.output = REJECT

(* C12: the recommendation-consistency check passes exactly when the       *)
(* stored recommendation equals what _determine_recommendation returns for *)
(* the stored scores, for any three scores and any stored recommendation.  *)
C12_CheckAgreesWithResolver ==
    Called("_check_recommendation_logic") =>
        LET ra == Val(call.input) IN
        call.output <=>
            ra.recommendation = _determine_recommendation(
                                    ra.overall_risk_score,
                                    ra.financial_health_score,
                                    ra.non_financial_risk_score)

\* the names among `names` whose check is not True
NotPassing(checks, names) == {n \in names : checks[n] # PyTrue}

CriticalNames == {"risk_analysis_present", "scores_in_valid_range",
                  "recommendation_logic_consistent"}

ImportantNames == {"company_data_available", "cnpj_consistency",
                   "factors_have_evidence", "analysis_text_quality"}

(* C13: an assessment whose overall score is 7.5 or more and whose         *)
(* recommendation is Reject fails the recommendation-consistency check,    *)
(* and the status is Rejected whatever the other seven checks are.         *)
C13_HighScoreRejectIsRejected ==
    /\ Called("_perform_consistency_checks") =>
          LET ra == Val(call.input.risk_analysis) IN
          ra.overall_risk_score >= 750 /\ ra.recommendation = REJECT =>
              /\ call.output.consistency_checks["recommendation_logic_consistent"] = PyFalse
              /\ call.output.status = REJECTED
    /\ Called("_determine_quality_status") =>
          (call.input["recommendation_logic_consistent"] = PyFalse
               => call.output = REJECTED)

C13_Witness ==
    /\ Called("_perform_consistency_checks")
    /\ Val(call.input.risk_analysis).overall_risk_score >= 750
    /\ Val(call.input.risk_analysis).recommendation = REJECT
    /\ NotPassing(call.output.consistency_checks, CheckNameSet)
           = {"recommendation_logic_consistent"}
    /\ call.output.status = REJECTED

(* C14: the status is Rejected exactly when a critical check fails, or     *)
(* every critical check passes and three or four of the four important     *)
(* checks fail; with exactly two important checks failing (and no critical *)
(* one) the status is Approved.                                            *)
C14_StatusRule ==
    Called("_determine_quality_status") =>
        LET critical_failed == NotPassing(call.input, CriticalNames) # {}
            important_failed == Cardinality(NotPassing(call.input, ImportantNames))
        IN  /\ call.output = REJECTED <=> (critical_failed \/ important_failed >= 3)
            /\ call.output \in {REJECTED, APPROVED}
            /\ ~critical_failed /\ important_failed = 2 => call.output = APPROVED

C14_Witness ==
    /\ Called("_determine_quality_status")
    /\ NotPassing(call.input, CriticalNames) = {}
    /\ Cardinality(NotPassing(call.input, ImportantNames)) = 2
    /\ call.output = APPROVED

\* no document analysis holds an indicator snapshot (none at all included)
NoSnapshot(docs) == \A i \in 1..Len(docs) : docs[i].financial_kpis = << >>

(* C15: with no document analysis, or with document analyses that hold no  *)
(* indicator snapshot, the financial health scorer returns exactly 3.0     *)
(* with one negative factor and no positive factor.                        *)
C15_NoFinancialDataScoresThree ==
    Called("_analyze_financial_health") /\ NoSnapshot(call.input) =>
        /\ call.output.score = 300
        /\ Len(call.output.negative) = 1
        /\ call.output.positive = << >>

C15_Witness ==
    /\ Called("_analyze_financial_health")
    /\ Len(call.input) = 2
    /\ NoSnapshot(call.input)
    /\ call.output.score = 300

(* C16: with no registry record, no web result and no document (and, in    *)
(* general, whenever no indicator snapshot was extracted) Scoring still    *)
(* produces an assessment, and its recommendation is Reject or Review,     *)
(* never Approve.                                                          *)
C16_NoIndicatorsNeverApprove ==
    Called("execute") /\ NoSnapshot(call.input.document_analysis) =>
        /\ call.output.recommendation \in {REJECT, REVIEW}
        /\ call.output.recommendation # APPROVE

C16_Witness ==
    /\ Called("execute")
    /\ call.input.company_data = None
    /\ call.input.web_search_results = << >>
    /\ call.input.document_analysis = << >>
    /\ call.output.recommendation \in {REJECT, REVIEW}

(* C17: every assessment has its three scores between 0 and 10, and its    *)
(* overall score is 0.7 times the financial score plus 0.3 times the       *)
(* non-financial score.                                                    *)
C17_ScoresInRangeAndWeighted ==
    Called("execute") =>
        LET ra == call.output IN
        /\ ra.financial_health_score \in 0..1000
        /\ ra.non_financial_risk_score \in 0..1000
        /\ ra.overall_risk_score \in 0..1000
        /\ ra.overall_risk_score * 10 =
               7 * ra.financial_health_score + 3 * ra.non_financial_risk_score

\* an assessment whose non-financial score was held at 0 by the clamp
C17_Witness ==
    /\ Called("execute")
    /\ call.output.non_financial_risk_score = 0
    /\ call.output.financial_health_score > 0
    /\ call.output.overall_risk_score > 0

(* C18: with no web result and an active registry record registered five   *)
(* years ago or more, the non-financial score is exactly 8.0, with two     *)
(* positive entries and no negative entry.                                 *)
C18_EstablishedActiveScoresEight ==
    (/\ Called("_analyze_non_financial_risks")
     /\ call.input.web_search_results = << >>
     /\ call.input.company_data # None
     /\ Val(call.input.company_data).legal_situation = Some("ATIVA")
     /\ Val(call.input.company_data).registration_days \in {Some(d) : d \in 5 * 365 .. 3000})
    => (/\ call.output.score = 800
        /\ Len(call.output.positive) = 2
        /\ call.output.negative = << >>)

C18_Witness ==
    /\ Called("_analyze_non_financial_risks")
    /\ call.input.web_search_results = << >>
    /\ call.input.company_data # None
    /\ Val(call.input.company_data).legal_situation = Some("ATIVA")
    /\ Val(call.input.company_data).registration_days = Some(5 * 365)
    /\ call.output.score = 800

\* the number of decimal digits in a text
DigitCount(text) == Cardinality({i \in 1..Len(text) : IsDigit(SubSeq(text, i, i))})

\* the extension of a file name: from its last dot on, in lower case
Extension(name) ==
    LET dots == {i \in 1..Len(name) : SubSeq(name, i, i) = "."}
    IN  IF dots = {} THEN ""
        ELSE Lower(SubSeq(name, CHOOSE i \in dots : \A j \in dots : j <= i, Len(name)))

\* the request the handler was called with is malformed
Malformed(request) ==
    \/ DigitCount(request.cnpj) # 14
    \/ \E i \in 1..Len(request.files) :
          \/ Extension(request.files[i].filename) \notin allowed_file_types
          \/ request.files[i].size > max_file_size

\* no AgentState was created and no node was entered
NoPipeline ==
    /\ request_id = "" /\ cnpj = "" /\ documents = << >>
    /\ trace = << >> /\ steps = 0 /\ attempts = 0
    /\ processing_notes = << >>

(* C19: a request whose tax identifier does not have exactly 14 digits     *)
(* once the non-digits are stripped, or that holds a file whose extension  *)
(* is not allow-listed or whose size is over the ceiling, is answered with *)
(* a client error (400) before the pipeline starts: the graph's            *)
(* analyze_credit is never called and no AgentState is created; any other  *)
(* request starts the pipeline.                                            *)
C19_MalformedRequestRejected ==
    call # None /\ call.fn = "analyze_credit" =>
        /\ Malformed(call.input) =>
              /\ pc \in {"request", "HTTP_400"}
              /\ NoPipeline
              /\ call.done => call.output.status_code = 400
        /\ ~Malformed(call.input) => pc # "HTTP_400"

C19_Witness ==
    /\ pc = "HTTP_400"
    /\ DigitCount(call.input.cnpj) = 14
    /\ Len(call.input.files) = 2
    /\ call.input.files[2].size > max_file_size
    /\ call.output.status_code = 400
    /\ NoPipeline

\* every note of the processing log can be read in the text
CarriesLog(text) ==
    \A i \in 1..Len(processing_notes) : Contains(text, processing_notes[i])

(* C20: when a stage has exhausted its retry budget and its error aborts   *)
(* the pipeline, the error that reaches the caller (the exception the      *)
(* graph's analyze_credit raises, then the handler's HTTP error) carries   *)
(* the processing log accumulated up to the failure.                       *)
C20_FatalErrorCarriesLog ==
    /\ pc = "ERROR" /\ Val(error).type = "Exception" =>
          CarriesLog(Val(error).message)
    /\ pc = "HTTP_500" /\ Val(error).type = "Exception" =>
          CarriesLog(call.output.detail)

\* the notes appended by the step
NewNotes == SubSeq(processing_notes', Len(processing_notes) + 1, Len(processing_notes'))

\* the step appended the note
Noted(note) == \E i \in 1..Len(NewNotes) : NewNotes[i] = note

(* C21: a collaborator failure during Gathering neither aborts the run nor *)
(* touches the retry counter. A Gathering step in which the registry       *)
(* lookup gave no record leaves the registry data absent and the web       *)
(* results empty, notes the fact, and hands over to DocumentAnalysis with  *)
(* the counter as it was; so does a step that got a record but no web      *)
(* result.                                                                 *)
C21_GatheringDegradesGracefully ==
    [][ ( /\ pc = "data_gatherer"
          /\ \/ Noted("[DataGatherer] Nao foi possivel obter dados da Receita Federal")
             \/ Noted("[DataGatherer] Coletados 0 resultados de busca web") )
        => ( /\ pc' = "document_analyst"
             /\ error' = None
             /\ retry_count' = retry_count
             /\ web_search_results' = << >>
             /\ Noted("[DataGatherer] Coleta de dados concluida")
             /\ Noted("[DataGatherer] Nao foi possivel obter dados da Receita Federal")
                    <=> company_data' = None ) ]_vars

\* Gathering done without a registry record, nothing retried
C21_Witness ==
    /\ pc = "document_analyst"
    /\ company_data = None
    /\ web_search_results = << >>
    /\ retry_count = 0
    /\ Last(processing_notes) = "[DataGatherer] Coleta de dados concluida"

\* the templated sentence of _generate_detailed_analysis's except branch
FallbackNarrative(ra) ==
    "Analise automatica: Score financeiro " \o Fmt1(ra.financial_health_score)
    \o "/10, Score nao-financeiro " \o Fmt1(ra.non_financial_risk_score)
    \o "/10. Recomendacao baseada nos indicadores calculados."

\* the text of _generate_feedback's except branch for the checks
FallbackFeedback(checks) ==
    "Verificacoes que falharam: "
    \o Join(SelectSeq(CheckNames, LAMBDA n : checks[n] # PyTrue), ", ")
    \o ". Favor revisar a analise considerando estes pontos."

(* C22: a failure of the generation service never fails the stage that     *)
(* called it and never changes the retry counter. With the service down, a *)
(* Scoring pass that returns stores the templated sentence with the two    *)
(* sub-scores, and a Validating pass whose checks give Rejected completes  *)
(* with a report whose feedback is the list of the failed check names.     *)
C22_GenerationFailureFallsBack ==
    [][ ~generation_up =>
        /\ (pc = "risk_analyst" /\ risk_analysis' # risk_analysis) =>
              /\ Val(risk_analysis').analysis_text = FallbackNarrative(Val(risk_analysis'))
              /\ retry_count' = retry_count
        /\ ( /\ pc = "quality_assurance"
             /\ risk_analysis # None
             /\ _determine_quality_status(CurrentChecks) = REJECTED ) =>
              /\ quality_validation' # None
              /\ Val(quality_validation').of = Val(risk_analysis).id
              /\ Val(quality_validation').feedback = Some(FallbackFeedback(CurrentChecks))
              /\ retry_count' = retry_count
              /\ pc' # "ERROR" \/ Val(error').type = "GraphRecursionError" ]_vars

\* the file names of the request's own uploads
OwnNames == {documents[i].filename : i \in 1..Len(documents)}

\* the file names of the other request's uploads
OtherNames == {"outro.pdf"}

(* C23: requests running at the same time do not affect each other's       *)
(* results. However the other request's document analysis falls between    *)
(* the steps of this one, each document analysis of this request was       *)
(* extracted from a store holding its own uploads only, the risk           *)
(* assessment holds the scores its own evidence gives, and the quality     *)
(* report holds the checks of its own state.                               *)
C23_RequestsDoNotInterfere ==
    /\ \A i \in 1..Len(document_analysis) :
          /\ document_analysis[i].retrieved_from # << >>
          /\ \A k \in 1..Len(document_analysis[i].retrieved_from) :
                document_analysis[i].retrieved_from[k] \in OwnNames
    /\ risk_analysis # None =>
          /\ Val(risk_analysis).financial_health_score
                = _analyze_financial_health(document_analysis).score
          /\ Val(risk_analysis).non_financial_risk_score
                = _analyze_non_financial_risks(company_data, web_search_results).score
    /\ (quality_validation # None /\ risk_analysis # None
          /\ Val(quality_validation).of = Val(risk_analysis).id) =>
          Val(quality_validation).consistency_checks = CurrentChecks

\* this request has its analysis and its report, and the store holds the
\* other request's documents
C23_Witness ==
    /\ pc = "END"
    /\ Len(document_analysis) > 0
    /\ quality_validation # None
    /\ vector_store # << >>
    /\ \A k \in 1..Len(vector_store) : vector_store[k] \in OtherNames

\* the part of an assessment that is computed from the evidence alone
Computed(ra) ==
    << ra.financial_health_score, ra.non_financial_risk_score,
       ra.overall_risk_score, ra.recommendation, ra.positive_factors,
       ra.negative_factors >>

C25_StagesKeepTheirFrame ==
    [][ /\ << request_id, cnpj, documents, retry_count, max_retries >>' =
           << request_id, cnpj, documents, retry_count, max_retries >>
        /\ (pc = "data_gatherer") =>
              << document_analysis, risk_analysis, quality_validation >>' =
              << document_analysis, risk_analysis, quality_validation >>
        /\ (pc = "document_analyst") =>
              << company_data, web_search_results, risk_analysis,
                 quality_validation >>' =
              << company_data, web_search_results, risk_analysis,
                 quality_validation >>
        /\ (pc = "risk_analyst") =>
              << company_data, web_search_results, document_analysis,
                 quality_validation >>' =
              << company_data, web_search_results, document_analysis,
                 quality_validation >>
        /\ (pc = "quality_assurance") =>
              << company_data, web_search_results, document_analysis,
                 risk_analysis >>' =
              << company_data, web_search_results, document_analysis,
                 risk_analysis >> ]_vars

\* the documents of a list that hold a snapshot
WithSnapshot(docs) == { i \in 1..Len(docs) : docs[i].financial_kpis # << >> }

\* the last snapshot of the last document analysis that holds one
LastSnapshot(docs) ==
    LET i == CHOOSE j \in WithSnapshot(docs) : \A k \in WithSnapshot(docs) : k <= j
    IN  docs[i].financial_kpis[Len(docs[i].financial_kpis)]

\* the number of snapshots in a list of document analyses
SnapshotCount(docs) == SumSeq([i \in 1..Len(docs) |-> Len(docs[i].financial_kpis)])

\* C26: when a snapshot exists, the financial health score and factors
\* depend only on the most recently appended snapshot: the result is the one
\* of that snapshot alone, and every other list of document analyses with
\* the same last snapshot gets the same score and the same factor lists.
C26_OnlyLastSnapshotCounts ==
    Called("_analyze_financial_health") /\ ~NoSnapshot(call.input) =>
        /\ call.output = _analyze_financial_health(
                             << DocAnalysis(<< LastSnapshot(call.input) >>, 70) >>)
        /\ \A other \in UnitDocsWithHistory :
              LastSnapshot(other) = LastSnapshot(call.input)
              => _analyze_financial_health(other) = call.output

\* a list of three snapshots whose earlier snapshots are weak and whose last
\* one is strong has been scored
C26_Witness ==
    /\ Called("_analyze_financial_health")
    /\ SnapshotCount(call.input) = 3
    /\ call.input[1].financial_kpis = << WeakKpi >>
    /\ LastSnapshot(call.input) = StrongKpi
    /\ call.output = _analyze_financial_health(<< DocAnalysis(<< StrongKpi >>, 70) >>)
    /\ call.output # _analyze_financial_health(<< DocAnalysis(<< WeakKpi >>, 70) >>)

StartsWith(text, prefix) ==
    Len(text) >= Len(prefix) /\ SubSeq(text, 1, Len(prefix)) = prefix

\* the factors of a list that report the current ratio under a given label
Labelled(factors, label) ==
    { i \in 1..Len(factors) : StartsWith(factors[i], label) }

\* the number of current-ratio factors of a financial health result
LiquidityFactors(result) ==
    Cardinality(Labelled(result.positive, "Boa liquidez corrente: "))
    + Cardinality(Labelled(result.positive, "Liquidez adequada: "))
    + Cardinality(Labelled(result.negative, "Liquidez insuficiente: "))

\* the same snapshot without its current assets and liabilities
WithoutLiquidity(kpi) ==
    [kpi EXCEPT !.current_assets = None, !.current_liabilities = None]

\* C27: when the scored snapshot has current assets present (0 included)
\* and current liabilities present and non-zero, exactly one current-ratio
\* adjustment with one factor is applied: +0.8 "good" at a ratio of 1.5 or
\* more, +0.3 "adequate" at 1.0 or more, -1.0 "insufficient" below 1.0
\* (the score compared, where no clamping occurs, with the score of the same
\* snapshot without its current assets and liabilities).
C27_OneCurrentRatioAdjustment ==
    Called("_analyze_financial_health") /\ ~NoSnapshot(call.input) =>
        LET kpi == LastSnapshot(call.input)
            base == _analyze_financial_health(
                        << DocAnalysis(<< WithoutLiquidity(kpi) >>, 70) >>)
            ca == Val(kpi.current_assets)
            cl == Val(kpi.current_liabilities)
            label == IF 2 * ca >= 3 * cl THEN "Boa liquidez corrente: "
                     ELSE IF ca >= cl THEN "Liquidez adequada: "
                     ELSE "Liquidez insuficiente: "
            adjustment == IF 2 * ca >= 3 * cl THEN 80
                          ELSE IF ca >= cl THEN 30 ELSE -100
            factors == IF ca >= cl THEN call.output.positive
                       ELSE call.output.negative
        IN  (kpi.current_assets # None /\ kpi.current_liabilities # None
             /\ cl # 0)
            => /\ LiquidityFactors(call.output) = 1
               /\ Cardinality(Labelled(factors, label)) = 1
               /\ (call.output.score \in 1..999 /\ base.score \in 1..999)
                  => call.output.score = base.score + adjustment

\* C28: the context built for the narrative reports the latest snapshot, the
\* one the financial health scorer scored (the last one appended across all
\* document analyses), whenever a snapshot exists.
C28_NarrativeReportsLatestSnapshot ==
    Called("_generate_detailed_analysis") /\ ~NoSnapshot(call.input) =>
        call.output.financial_info = Some(LastSnapshot(call.input))

\* the checks the quality gate computes for the assessment execute returned
ChecksOfExecute ==
    _perform_consistency_checks(RequestCnpj, call.input.company_data,
                                call.input.web_search_results,
                                call.input.document_analysis, Some(call.output))

\* C29: every assessment the Scoring stage produces passes the three
\* critical checks of the quality gate (assessment present, scores in range,
\* recommendation consistent), also when a sub-score is at its hard floor:
\* no evidence gives an overall score of 7.5 or more together with a Reject.
\* A Rejected status for such an assessment comes from three or four failed
\* important checks.
C29_ScoringPassesCriticalChecks ==
    Called("execute") =>
        /\ NotPassing(ChecksOfExecute, CriticalNames) = {}
        /\ ScoresInRange(Some(call.output))
        /\ _check_recommendation_logic(Some(call.output))
        /\ ~(call.output.overall_risk_score >= 750
             /\ call.output.recommendation = REJECT)
        /\ _determine_quality_status(ChecksOfExecute) = REJECTED
             => Cardinality(NotPassing(ChecksOfExecute, ImportantNames)) >= 3

\* the strongest snapshot scored together with a non-financial score at the
\* hard floor: Reject, with an overall score above 7.0
C29_Witness ==
    /\ Called("execute")
    /\ call.output.financial_health_score = 930
    /\ call.output.non_financial_risk_score = 300
    /\ call.output.overall_risk_score = 741
    /\ call.output.recommendation = REJECT
    /\ NotPassing(ChecksOfExecute, CriticalNames) = {}

\* C30: with the generation service failing on every call and no registry
\* record, every Validating pass on an assessment yields a Rejected report
\* (narrative quality, registry-present and tax-id-match fail, three of the
\* four important checks), and no report of the run is ever Approved.
C30_DegradedRunIsRejected ==
    [][ (~generation_up /\ company_data = None) =>
        /\ (pc = "quality_assurance" /\ risk_analysis # None) =>
              /\ quality_validation' # None
              /\ Val(quality_validation').status = REJECTED
              /\ Val(quality_validation').of = Val(risk_analysis).id
              /\ Cardinality(NotPassing(Val(quality_validation').consistency_checks,
                                        ImportantNames)) >= 3
        /\ quality_validation' # None =>
              Val(quality_validation').status # APPROVED ]_vars

====
